---- MODULE Spec2Model ----
(***************************************************************************)
(* Gemini Desktop: the window coordinator of the main process.             *)
(*                                                                         *)
(* Three window roles are modelled: the Standard Window (Primary), the HUD *)
(* (Overlay) and the sign-in windows, together with the two cookie         *)
(* partitions, the cookie relay (copyAuthCookies) and the quit sequence.   *)
(* Every action is one handler of the Electron event loop; an async        *)
(* handler is split at its awaits, each piece being one turn of the loop.  *)
(***************************************************************************)
EXTENDS Integers, Sequences, FiniteSets, TLC

\* ------------------------------------------------------------------------
\* Bounds of the model
\* ------------------------------------------------------------------------

\* did-navigate completion handlers awaiting the relay at the same time
MaxFlows == 2

\* cap of the load counters
MaxLoads == 2

\* window and display coordinates range over -MaxCoord..MaxCoord
MaxCoord == 2

\* window widths and heights range over 1..MaxSize
MaxSize == 2

\* ------------------------------------------------------------------------
\* URLs: a URL is its host followed by the host-like tokens of its path and
\* query; String.includes is a search over the tokens.
\* ------------------------------------------------------------------------

GEMINI_HOST == "gemini.google.com"

AUTH_HOST == "accounts.google.com"

GEMINI_URL == <<GEMINI_HOST>>

\* a page of the wrapped site other than its root
GEMINI_APP == <<GEMINI_HOST, "app">>

AUTH_URL == <<AUTH_HOST>>

\* accounts.google.com/signin?continue=https://gemini.google.com
AUTH_CONTINUE == <<AUTH_HOST, GEMINI_HOST>>

EXTERNAL_URL == <<"example.com">>

\* example.com/?next=accounts.google.com
EXTERNAL_AUTH_TEXT == <<"example.com", AUTH_HOST>>

\* a page of another Google host that carries the wrapped site's URL, as the
\* consent page does: https://consent.google.com/?continue=https://gemini.google.com/
CONSENT_CONTINUE == <<"consent.google.com", GEMINI_HOST>>

URLS == {GEMINI_URL, GEMINI_APP, AUTH_URL, AUTH_CONTINUE, EXTERNAL_URL, EXTERNAL_AUTH_TEXT}

\* the URLs a sign-in window visits
SIGNIN_URLS == {GEMINI_URL, GEMINI_APP, AUTH_URL, AUTH_CONTINUE}

\* the URLs a sign-in window may land on
LANDING_URLS == SIGNIN_URLS \cup {CONSENT_CONTINUE}

Includes(url, s) == \E i \in DOMAIN url : url[i] = s

Host(url) == url[1]

\* variant: the interception reusing the test of the did-navigate handler
IsAuthTargetNoContinue(url) == Includes(url, AUTH_HOST) /\ ~Includes(url, GEMINI_HOST)

\* url.includes('accounts.google.com')
IsAuthTarget(url) == Includes(url, AUTH_HOST)

\* navUrl.includes('gemini.google.com') && !navUrl.includes('accounts.google.com')
IsSignInSuccess(navUrl) == Includes(navUrl, GEMINI_HOST) /\ ~Includes(navUrl, AUTH_HOST)

\* ------------------------------------------------------------------------
\* Cookies
\* ------------------------------------------------------------------------

CookieNames == {"SID", "NID", "EXT"}

\* the domain attribute of each cookie
CookieDomain(n) == IF n = "EXT" THEN ".example.com" ELSE ".google.com"

\* cookies.get({ domain: '.google.com' })
MatchesDomain(n, d) == CookieDomain(n) = d

NoCookies == [n \in CookieNames |-> 0]

\* the cookie names in a fixed enumeration order
CookieOrder == <<"EXT", "NID", "SID">>

\* ------------------------------------------------------------------------
\* State
\* ------------------------------------------------------------------------

Owners == {"std", "hud"}

SignInName(o) == IF o = "std" THEN "signin_std" ELSE "signin_hud"

\* ------------------------------------------------------------------------
\* Sessions (auth.ts), hot keys (hotkey.ts) and responses
\* ------------------------------------------------------------------------

\* the partition of the Standard Window and the HUD
SESSION_PARTITION == "persist:gemini"

\* the partition of the sign-in windows
SIGNIN_PARTITION == "persist:gemini-auth"

Partitions == {SESSION_PARTITION, SIGNIN_PARTITION}

\* the names of the windows in the calls of the handlers
Windows == {"std", "hud", "signin_std", "signin_hud"}

\* a session on which nothing was installed
NoSessions == [p \in Partitions |-> [interceptor |-> FALSE, userAgent |-> "default",
                                      watcher |-> FALSE]]

\* setupAuthInterception(ses): onBeforeSendHeaders and setUserAgent(CHROME_UA)
SetupAuthInterception(ss, p) == [ss EXCEPT ![p].interceptor = TRUE, ![p].userAgent = "chrome"]

\* setupAuthErrorDetection(ses, onAuthError): onCompleted
SetupAuthErrorDetection(ss, p) == [ss EXCEPT ![p].watcher = TRUE]

\* variant: every window on the partition of the wrapped site
CreatedOnShared(w) == SESSION_PARTITION

\* webPreferences.partition of the window each create function makes
CreatedOn(w) == IF w \in {"std", "hud"} THEN SESSION_PARTITION ELSE SIGNIN_PARTITION

\* what the create function of window w installs before it makes the window
Installed(ss, w) ==
    IF w = "std" THEN SetupAuthInterception(ss, SESSION_PARTITION)
    ELSE IF w = "hud"
    THEN SetupAuthErrorDetection(SetupAuthInterception(ss, SESSION_PARTITION), SESSION_PARTITION)
    ELSE ss

\* the sessions after a sequence of calls
RECURSIVE SessionsAfter(_, _)
SessionsAfter(cs, ss) ==
    IF cs = <<>> THEN ss
    ELSE SessionsAfter(Tail(cs), IF Head(cs)[2] = "create" THEN Installed(ss, Head(cs)[1])
                                 ELSE ss)

\* the partition of each window after a sequence of calls
RECURSIVE WindowSessionAfter(_, _)
WindowSessionAfter(cs, ws) ==
    IF cs = <<>> THEN ws
    ELSE WindowSessionAfter(Tail(cs),
                            IF Head(cs)[2] = "create"
                            THEN [ws EXCEPT ![Head(cs)[1]] = {CreatedOn(Head(cs)[1])}]
                            ELSE ws)

\* getDefaultHotkey()
DefaultHotkey == "CommandOrControl+Shift+G"

\* the accelerators a user may choose
Hotkeys == {DefaultHotkey, "Alt+Space", "F9"}

\* hosts of responses, as their labels
GEMINI_LABELS == <<"gemini", "google", "com">>

ResponseHosts == {GEMINI_LABELS, <<"accounts", "google", "com">>, <<"play", "google", "com">>,
                  <<"google", "com">>, <<"example", "com">>}

Statuses == {200, 401, 403, 500}

\* the URL pattern *://*.google.com/* of onCompleted
MatchesGoogle(host) ==
    /\ Len(host) >= 3
    /\ host[Len(host) - 1] = "google"
    /\ host[Len(host)] = "com"

VARIABLES
    standardWindow,  \* the Primary: [st, visible, page]
    isQuitting,      \* the isQuitting flag in the closure of the current Primary
    stdReady,        \* the once('ready-to-show') handler of the Primary is pending
    hudWindow,       \* the Overlay: [st, visible, page]
    hudReady,        \* the once('ready-to-show') handler of showHUDWindow is pending
    signInWindow,    \* the signInWindow variable of each module
    flows,           \* completion handlers suspended at await copyAuthCookies()
    clean,           \* cookies of persist:gemini-auth
    spoofed,         \* cookies of persist:gemini
    closeBehavior,   \* the closeBehavior setting
    hiddenLaunch,    \* process started with --hidden / as a hidden login item
    appQuitting,     \* Electron is closing all windows in order to quit
    beforeQuitFired, \* before-quit was emitted at least once
    exited,          \* the process terminated
    calls,           \* the window and cookie calls issued by the last handler
    relayLeft,       \* cookie writes of the acting relay not yet resolved
    hudLoads,        \* loadURL calls on the current Overlay outside sign-in completion
    cycleReloads,    \* Overlay loadURL calls so far by completions of the acting sign-in
    cookie,          \* a cookie of persist:gemini-auth as cookies.get returns it
    written,         \* what persist:gemini holds around it: before and after cookies.set
    savedBounds,     \* the stored windowBounds entry of a window
    defaultBounds,   \* the default size of that window
    displays,        \* screen.getAllDisplays()
    resolved,        \* what getWindowBounds returned, if it was called
    secondProcess,   \* a second process of the application, if one was launched
    currentHotkey,   \* the currentHotkey variable of hotkey.ts, if not null
    storedHotkey,    \* the hotkey setting
    registered,      \* the accelerators globalShortcut holds for this process
    taken,           \* the accelerators other applications hold
    updateResult,    \* what updateHotkey returned, if it was called
    sessions,        \* what is installed on each partition
    windowSession,   \* the partition of each window, if the window exists
    response,        \* the response completed last, if any
    authErrorCalls,  \* calls of the auth-error callback by the last handler
    trayChecked      \* the checked state of the tray's 'Toggle HUD' item

vars == <<standardWindow, isQuitting, stdReady, hudWindow, hudReady, signInWindow,
          flows, clean, spoofed, closeBehavior, hiddenLaunch, appQuitting,
          beforeQuitFired, exited, calls, relayLeft, hudLoads, cycleReloads,
          cookie, written, savedBounds, defaultBounds, displays, resolved,
          secondProcess, currentHotkey, storedHotkey, registered, taken, updateResult,
          sessions, windowSession, response, authErrorCalls, trayChecked>>

\* the inputs and results of the functions checked on their own
pureVars == <<cookie, written, savedBounds, defaultBounds, displays, resolved>>

\* the state of the windows, the sign-in flows and the two partitions
windowVars == <<standardWindow, isQuitting, stdReady, hudWindow, hudReady, signInWindow,
                flows, clean, spoofed, closeBehavior, hiddenLaunch, appQuitting,
                beforeQuitFired, exited, calls, relayLeft, hudLoads, cycleReloads>>

instanceVars == <<secondProcess>>

hotkeyVars == <<currentHotkey, storedHotkey, registered, taken, updateResult>>

sessionVars == <<sessions, windowSession>>

watcherVars == <<response, authErrorCalls>>

trayVars == <<trayChecked>>

\* what the window handlers other than the toggle leave alone
quietVars == <<instanceVars, hotkeyVars, watcherVars, trayVars>>

\* window.isDestroyed()
IsDestroyed(w) == w.st = "destroyed"

\* a window that exists: live, or between close() and its closed event
Exists(w) == w.st \in {"live", "closing"}

NoSignIn == [st |-> "none", url |-> AUTH_URL]

\* signInWindow && !signInWindow.isDestroyed()
SignInAlive(o) == signInWindow[o].st \in {"live", "closing"}

Called(w, op) == \E i \in DOMAIN calls : calls[i] = <<w, op>>

Min(a, b) == IF a < b THEN a ELSE b

RECURSIVE CountCalls(_, _, _)
CountCalls(cs, w, op) ==
    IF cs = <<>> THEN 0
    ELSE (IF Head(cs) = <<w, op>> THEN 1 ELSE 0) + CountCalls(Tail(cs), w, op)

\* the focused window after a sequence of calls: focus() takes the focus, a
\* sign-in window is created shown and focused, hiding the focused window
\* gives the focus up
FocusStep(c, f) ==
    IF c[2] = "focus" THEN c[1]
    ELSE IF c[2] = "create" /\ c[1] \in {"signin_std", "signin_hud"} THEN c[1]
    ELSE IF c[2] = "hide" /\ c[1] = f THEN "none"
    ELSE f

RECURSIVE FocusAfter(_, _)
FocusAfter(cs, f) ==
    IF cs = <<>> THEN f
    ELSE FocusAfter(Tail(cs), FocusStep(Head(cs), f))

\* loadURL calls received by the current Overlay after a sequence of calls
RECURSIVE LoadsAfter(_, _)
LoadsAfter(cs, n) ==
    IF cs = <<>> THEN n
    ELSE LoadsAfter(Tail(cs),
                    IF Head(cs) = <<"hud", "create">> THEN 0
                    ELSE IF Head(cs) = <<"hud", "loadURL">> THEN Min(n + 1, MaxLoads)
                    ELSE n)

\* the clean partition is persisted: what an earlier run left in it
PersistedJars ==
    {NoCookies, [NoCookies EXCEPT !["SID"] = 1], [NoCookies EXCEPT !["SID"] = 1, !["NID"] = 1]}

InitWindows ==
    /\ standardWindow = [st |-> "live", visible |-> FALSE, page |-> GEMINI_URL]
    /\ isQuitting = FALSE
    /\ stdReady = TRUE
    /\ hudWindow = [st |-> "live", visible |-> FALSE, page |-> GEMINI_URL]
    /\ hudReady = FALSE
    /\ signInWindow = [o \in Owners |-> NoSignIn]
    /\ flows = <<>>
    /\ clean \in PersistedJars
    /\ spoofed \in {NoCookies, [NoCookies EXCEPT !["EXT"] = 1]}
    /\ closeBehavior \in {"tray", "quit"}
    /\ hiddenLaunch \in BOOLEAN
    /\ appQuitting = FALSE
    /\ beforeQuitFired = FALSE
    /\ exited = FALSE
    /\ calls = <<<<"std", "create">>, <<"std", "loadURL">>, <<"hud", "create">>, <<"hud", "loadURL">>>>
    /\ relayLeft = 0
    /\ hudLoads = 1
    /\ cycleReloads = 0

\* no cookie under copy and no window bounds under resolution
InitIdle ==
    /\ cookie = [name |-> "SID", value |-> 1, domain |-> [dot |-> TRUE, host |-> "google.com"],
                 hostOnly |-> FALSE, path |-> "/", secure |-> TRUE, httpOnly |-> TRUE,
                 expirationDate |-> {}, sameSite |-> "unspecified"]
    /\ written = {}
    /\ savedBounds = [x |-> {}, y |-> {}, width |-> 1, height |-> 1]
    /\ defaultBounds = [width |-> 1, height |-> 1]
    /\ displays = {}
    /\ resolved = {}

\* no second process
InitInstance == secondProcess = "none"

\* registerHotkeys() of init() registered the stored accelerator
InitHotkeys ==
    /\ storedHotkey = DefaultHotkey
    /\ taken = {}
    /\ currentHotkey = {DefaultHotkey}
    /\ registered = {DefaultHotkey}
    /\ updateResult = {}

\* createStandardWindow() and createHUDWindow() of init() set up the sessions
InitSessions ==
    /\ sessions = SessionsAfter(<<<<"std", "create">>, <<"hud", "create">>>>, NoSessions)
    /\ windowSession = WindowSessionAfter(<<<<"std", "create">>, <<"hud", "create">>>>,
                                          [w \in Windows |-> {}])

\* no response yet
InitWatcher ==
    /\ response = {}
    /\ authErrorCalls = 0

\* createTray() built the menu with the HUD hidden
InitTray == trayChecked = FALSE

InitQuiet == InitInstance /\ InitHotkeys /\ InitSessions /\ InitWatcher /\ InitTray

Init == InitWindows /\ InitIdle /\ InitQuiet

\* ------------------------------------------------------------------------
\* Bookkeeping shared by the handlers
\* ------------------------------------------------------------------------

stdVars == <<standardWindow, isQuitting, stdReady>>

hudVars == <<hudWindow, hudReady>>

cookieVars == <<clean, spoofed>>

appVars == <<appQuitting, beforeQuitFired, exited>>

cfgVars == <<closeBehavior, hiddenLaunch>>

\* a handler outside sign-in completion issued the calls cs
IssuedCalls(cs) ==
    /\ calls' = cs
    /\ hudLoads' = LoadsAfter(cs, hudLoads)
    /\ relayLeft' = 0
    /\ cycleReloads' = 0
    /\ UNCHANGED pureVars

\* some call of cs is a create function
Creates(cs) == \E i \in DOMAIN cs : cs[i][2] = "create"

\* the sessions and the partitions of the windows after the calls cs: only
\* the create functions touch them
Tracked(cs) ==
    IF Creates(cs)
    THEN /\ sessions' = SessionsAfter(cs, sessions)
         /\ windowSession' = WindowSessionAfter(cs, windowSession)
    ELSE UNCHANGED <<sessions, windowSession>>

\* the windows ws are destroyed
Gone(ws) ==
    /\ IssuedCalls(<<>>)
    /\ windowSession' = [w \in Windows |-> IF w \in ws THEN {} ELSE windowSession[w]]
    /\ UNCHANGED <<sessions, quietVars>>

Issued(cs) ==
    /\ IssuedCalls(cs)
    /\ Tracked(cs)
    /\ UNCHANGED quietVars

Running == ~exited

\* some window is still open
WindowsLeft(std, hud, sign) ==
    \/ Exists(std)
    \/ Exists(hud)
    \/ \E o \in Owners : sign[o].st # "none"

\* app.on('window-all-closed', () => {}): the listener is empty, so the last
\* window closing asks for no quit
WindowAllClosedQuits == FALSE

\* the process ends with its last window when a quit is in progress
EndsWithLastWindow(std, hud, sign) ==
    (appQuitting \/ WindowAllClosedQuits) /\ ~WindowsLeft(std, hud, sign)

\* window.close() that no handler prevents: the window closes and its closed
\* event comes in a later turn
Closing(w) == IF w.st = "live" THEN [w EXCEPT !.st = "closing"] ELSE w

\* the flows left when the sign-in window of module o is gone
MarkStale(fs, o) ==
    [j \in DOMAIN fs |-> IF fs[j].owner = o THEN [fs[j] EXCEPT !.stale = TRUE] ELSE fs[j]]

\* ------------------------------------------------------------------------
\* Standard Window (standard.ts)
\* ------------------------------------------------------------------------

\* createStandardWindow(): a new window, not shown, loading GEMINI_URL, with
\* its own isQuitting flag and a pending ready-to-show handler
CreateStandardWindow ==
    [win |-> [st |-> "live", visible |-> FALSE, page |-> GEMINI_URL],
     isQ |-> FALSE,
     ready |-> TRUE,
     calls |-> <<<<"std", "create">>, <<"std", "loadURL">>>>]

\* showStandardWindow()
ShowStandardWindow ==
    IF IsDestroyed(standardWindow)
    THEN CreateStandardWindow
    ELSE [win |-> [standardWindow EXCEPT !.page = GEMINI_URL, !.visible = TRUE],
          isQ |-> isQuitting,
          ready |-> stdReady,
          calls |-> <<<<"std", "loadURL">>, <<"std", "show">>, <<"std", "focus">>>>]

\* the tray's 'Show Main Window' item
TrayShow ==
    /\ Running
    /\ LET r == ShowStandardWindow IN
        /\ standardWindow' = r.win
        /\ isQuitting' = r.isQ
        /\ stdReady' = r.ready
        /\ Issued(r.calls)
    /\ UNCHANGED <<hudVars, signInWindow, flows, cookieVars, cfgVars, appVars>>

\* buildContextMenu(): the checked state of 'Toggle HUD'
IsHUDVisible(hud) == ~IsDestroyed(hud) /\ hud.visible

\* updateTrayMenu(): the menu is built again from the windows as they are
UpdateTrayMenu(hud) == IsHUDVisible(hud)

\* tray.on('click'): showStandardWindow(), then updateTrayMenu()
TrayClick ==
    /\ Running
    /\ LET r == ShowStandardWindow IN
        /\ standardWindow' = r.win
        /\ isQuitting' = r.isQ
        /\ stdReady' = r.ready
        /\ IssuedCalls(r.calls)
        /\ Tracked(r.calls)
    /\ trayChecked' = UpdateTrayMenu(hudWindow)
    /\ UNCHANGED <<hudVars, signInWindow, flows, cookieVars, cfgVars, appVars,
                   instanceVars, hotkeyVars, watcherVars>>

\* app.on('activate'): create the Standard Window when there is none, else
\* show and focus the one there is
Activate ==
    /\ Running
    /\ LET r == IF IsDestroyed(standardWindow)
                THEN CreateStandardWindow
                ELSE [win |-> [standardWindow EXCEPT !.visible = TRUE],
                      isQ |-> isQuitting,
                      ready |-> stdReady,
                      calls |-> <<<<"std", "show">>, <<"std", "focus">>>>]
       IN
        /\ standardWindow' = r.win
        /\ isQuitting' = r.isQ
        /\ stdReady' = r.ready
        /\ Issued(r.calls)
    /\ UNCHANGED <<hudVars, signInWindow, flows, cookieVars, cfgVars, appVars>>

\* app.on('second-instance'): show and focus the window getStandardWindow()
\* returns; the reference is never reset, so on a destroyed window the
\* first call, isMinimized(), throws and the handler ends there
SecondInstance ==
    /\ Running
    /\ standardWindow' = IF IsDestroyed(standardWindow) THEN standardWindow
                          ELSE [standardWindow EXCEPT !.visible = TRUE]
    /\ Issued(IF IsDestroyed(standardWindow)
              THEN <<<<"std", "isMinimized">>>>
              ELSE <<<<"std", "isMinimized">>, <<"std", "show">>, <<"std", "focus">>>>)
    /\ UNCHANGED <<isQuitting, stdReady, hudVars, signInWindow, flows, cookieVars, cfgVars,
                   appVars>>

\* win.once('ready-to-show'): show unless launched hidden
StdReadyToShow ==
    /\ Running
    /\ stdReady
    /\ Exists(standardWindow)
    /\ stdReady' = FALSE
    /\ standardWindow' = IF hiddenLaunch THEN standardWindow
                          ELSE [standardWindow EXCEPT !.visible = TRUE]
    /\ Issued(IF hiddenLaunch THEN <<>> ELSE <<<<"std", "show">>>>)
    /\ UNCHANGED <<isQuitting, hudVars, signInWindow, flows, cookieVars, cfgVars, appVars>>

\* the settings window stores a new closeBehavior
SetCloseBehavior(b) ==
    /\ Running
    /\ closeBehavior # b
    /\ closeBehavior' = b
    /\ Issued(<<>>)
    /\ UNCHANGED <<stdVars, hudVars, signInWindow, flows, cookieVars, hiddenLaunch, appVars>>

\* variant: the close handler hiding to the tray whatever the setting is
ClosePreventedAlways == ~isQuitting

\* win.on('close'): the close is prevented and the window hidden
ClosePrevented == ~isQuitting /\ closeBehavior = "tray"

\* win.on('close'): the handler calls app.quit()
CloseQuitsApp == ~isQuitting /\ closeBehavior = "quit"

\* app.quit(): before-quit is emitted, which sets the isQuitting flag of
\* every Standard Window created so far, then every window is closed; with
\* no window left the process ends at once
AppQuit ==
    /\ beforeQuitFired' = TRUE
    /\ isQuitting' = TRUE
    /\ appQuitting' = TRUE
    /\ standardWindow' = Closing(standardWindow)
    /\ hudWindow' = Closing(hudWindow)
    /\ signInWindow' = [o \in Owners |-> Closing(signInWindow[o])]
    /\ exited' = ~WindowsLeft(standardWindow, hudWindow, signInWindow)

\* the tray's Quit item
TrayQuit ==
    /\ Running
    /\ AppQuit
    /\ Issued(<<<<"app", "quit">>>>)
    /\ UNCHANGED <<stdReady, hudReady, flows, cookieVars, cfgVars>>

\* the user closes the Standard Window: win.on('close')
PrimaryClose ==
    /\ Running
    /\ standardWindow.st = "live"
    /\ IF ClosePrevented
       THEN /\ standardWindow' = [standardWindow EXCEPT !.visible = FALSE]
            \* a prevented close cancels a quit in progress
            /\ appQuitting' = FALSE
            /\ Issued(<<<<"std", "preventDefault">>, <<"std", "hide">>>>)
            /\ UNCHANGED <<isQuitting, hudWindow, signInWindow, beforeQuitFired, exited>>
       ELSE IF CloseQuitsApp
       THEN /\ AppQuit
            /\ Issued(<<<<"app", "quit">>>>)
       ELSE /\ standardWindow' = Closing(standardWindow)
            /\ Issued(<<>>)
            /\ UNCHANGED <<isQuitting, hudWindow, signInWindow, appVars>>
    /\ UNCHANGED <<stdReady, hudReady, flows, cookieVars, cfgVars>>

\* the closed event of the Standard Window; its modal sign-in child goes
\* with it, and the process ends when a quit was waiting for the last window
StdClosed ==
    /\ Running
    /\ standardWindow.st = "closing"
    /\ standardWindow' = [standardWindow EXCEPT !.st = "destroyed", !.visible = FALSE]
    /\ stdReady' = FALSE
    /\ signInWindow' = [signInWindow EXCEPT !["std"] = NoSignIn]
    /\ flows' = MarkStale(flows, "std")
    /\ exited' = EndsWithLastWindow(standardWindow', hudWindow, signInWindow')
    /\ Gone({"std", "signin_std"})
    /\ UNCHANGED <<isQuitting, hudVars, cookieVars, cfgVars, appQuitting,
                   beforeQuitFired>>

\* ------------------------------------------------------------------------
\* HUD window (hud.ts)
\* ------------------------------------------------------------------------

\* createHUDWindow(): a new window, not shown, loading GEMINI_URL once
CreateHUDWindow ==
    [win |-> [st |-> "live", visible |-> FALSE, page |-> GEMINI_URL],
     ready |-> FALSE,
     calls |-> <<<<"hud", "create">>, <<"hud", "loadURL">>>>]

\* variant: showHUDWindow() reloading the page as showStandardWindow() does
ShowHUDWindowReloading ==
    IF IsDestroyed(hudWindow)
    THEN [CreateHUDWindow EXCEPT !.ready = TRUE]
    ELSE [win |-> [hudWindow EXCEPT !.visible = TRUE, !.page = GEMINI_URL],
          ready |-> hudReady,
          calls |-> <<<<"hud", "loadURL">>, <<"hud", "show">>, <<"hud", "focus">>,
                      <<"hud", "send">>>>]

\* showHUDWindow(): create and show when ready, or just show and focus
ShowHUDWindow ==
    IF IsDestroyed(hudWindow)
    THEN [CreateHUDWindow EXCEPT !.ready = TRUE]
    ELSE [win |-> [hudWindow EXCEPT !.visible = TRUE],
          ready |-> hudReady,
          calls |-> <<<<"hud", "show">>, <<"hud", "focus">>, <<"hud", "send">>>>]

\* hideHUDWindow()
HideHUDWindow ==
    IF ~IsDestroyed(hudWindow)
    THEN [win |-> [hudWindow EXCEPT !.visible = FALSE],
          ready |-> hudReady,
          calls |-> <<<<"hud", "hide">>>>]
    ELSE [win |-> hudWindow, ready |-> hudReady, calls |-> <<>>]

\* variant: toggleHUDWindow() that shows the HUD whatever its visibility
ToggleHUDWindowShowOnly == ShowHUDWindow

\* variant: toggleHUDWindow() without the isVisible() of its first statement,
\* so that it creates a HUD when the last one is destroyed
ToggleHUDWindowCreating ==
    IF IsDestroyed(hudWindow) THEN ShowHUDWindow
    ELSE IF hudWindow.visible THEN HideHUDWindow
    ELSE ShowHUDWindow

\* toggleHUDWindow(): its first statement logs hudWindow?.isVisible(); the
\* hudWindow variable is never reset, so on a destroyed window that call
\* throws and the function ends there
ToggleHUDWindow ==
    IF IsDestroyed(hudWindow)
    THEN [win |-> hudWindow, ready |-> hudReady, calls |-> <<<<"hud", "isVisible">>>>]
    ELSE IF hudWindow.visible THEN HideHUDWindow
    ELSE ShowHUDWindow

\* what a handler that only changes the HUD does to the windows
HudRuns(r) ==
    /\ Running
    /\ hudWindow' = r.win
    /\ hudReady' = r.ready
    /\ IssuedCalls(r.calls)
    /\ Tracked(r.calls)
    /\ UNCHANGED <<stdVars, signInWindow, flows, cookieVars, cfgVars, appVars>>

\* a handler that only changes the HUD
HudOp(r) ==
    /\ HudRuns(r)
    /\ UNCHANGED quietVars

\* the tray's or another caller's showHUDWindow()
ShowHUD == HudOp(ShowHUDWindow)

\* hideHUDWindow() called directly
HideHUD == HudOp(HideHUDWindow)

\* the global hotkey and the tray's 'Toggle HUD' item: toggleHUDWindow(),
\* whose last statement updates the tray menu unless the function threw
ToggleHUD ==
    /\ HudRuns(ToggleHUDWindow)
    /\ trayChecked' = IF IsDestroyed(hudWindow) THEN trayChecked
                      ELSE UpdateTrayMenu(ToggleHUDWindow.win)
    /\ UNCHANGED <<instanceVars, hotkeyVars, watcherVars>>

\* ipcMain.on('hud:hide')
IpcHudHide == HudOp(HideHUDWindow)

\* the once('ready-to-show') handler registered by showHUDWindow
HudReadyToShow ==
    /\ hudReady
    /\ Exists(hudWindow)
    /\ HudOp([win |-> [hudWindow EXCEPT !.visible = TRUE],
              ready |-> FALSE,
              calls |-> <<<<"hud", "show">>, <<"hud", "focus">>, <<"hud", "send">>>>])

\* the user closes the HUD through the window manager; no close handler
HudClose ==
    /\ Running
    /\ hudWindow.st = "live"
    /\ hudWindow' = Closing(hudWindow)
    /\ Issued(<<>>)
    /\ UNCHANGED <<stdVars, hudReady, signInWindow, flows, cookieVars, cfgVars, appVars>>

\* the closed event of the HUD
HudClosed ==
    /\ Running
    /\ hudWindow.st = "closing"
    /\ hudWindow' = [hudWindow EXCEPT !.st = "destroyed", !.visible = FALSE]
    /\ hudReady' = FALSE
    /\ exited' = EndsWithLastWindow(standardWindow, hudWindow', signInWindow)
    /\ Gone({"hud"})
    /\ UNCHANGED <<stdVars, signInWindow, flows, cookieVars, cfgVars, appQuitting,
                   beforeQuitFired>>

\* variant: the callback without the test of hudWindow.isVisible()
AuthErrorCallbackAnyVisibility ==
    IF ~IsDestroyed(hudWindow)
    THEN LET r == ShowStandardWindow IN
         [hud |-> [hudWindow EXCEPT !.visible = FALSE],
          std |-> r.win, isQ |-> r.isQ, ready |-> r.ready,
          calls |-> <<<<"hud", "hide">>>> \o r.calls]
    ELSE [hud |-> hudWindow, std |-> standardWindow, isQ |-> isQuitting, ready |-> stdReady,
          calls |-> <<>>]

\* variant: the callback raising the Standard Window with show() and focus()
\* instead of showStandardWindow()
AuthErrorCallbackNoReload ==
    IF ~IsDestroyed(hudWindow) /\ hudWindow.visible
    THEN [hud |-> [hudWindow EXCEPT !.visible = FALSE],
          std |-> IF IsDestroyed(standardWindow) THEN standardWindow
                  ELSE [standardWindow EXCEPT !.visible = TRUE],
          isQ |-> isQuitting, ready |-> stdReady,
          calls |-> <<<<"hud", "hide">>>> \o
                    (IF IsDestroyed(standardWindow) THEN <<>>
                     ELSE <<<<"std", "show">>, <<"std", "focus">>>>)]
    ELSE [hud |-> hudWindow, std |-> standardWindow, isQ |-> isQuitting, ready |-> stdReady,
          calls |-> <<>>]

\* the callback given to setupAuthErrorDetection, run for a 401/403 response
\* on persist:gemini
AuthErrorCallback ==
    IF ~IsDestroyed(hudWindow) /\ hudWindow.visible
    THEN LET r == ShowStandardWindow IN
         [hud |-> [hudWindow EXCEPT !.visible = FALSE],
          std |-> r.win, isQ |-> r.isQ, ready |-> r.ready,
          calls |-> <<<<"hud", "hide">>>> \o r.calls]
    ELSE [hud |-> hudWindow, std |-> standardWindow, isQ |-> isQuitting, ready |-> stdReady,
          calls |-> <<>>]

AuthError ==
    /\ Running
    /\ Exists(standardWindow) \/ Exists(hudWindow)
    /\ LET r == AuthErrorCallback IN
        /\ hudWindow' = r.hud
        /\ standardWindow' = r.std
        /\ isQuitting' = r.isQ
        /\ stdReady' = r.ready
        /\ Issued(r.calls)
    /\ UNCHANGED <<hudReady, signInWindow, flows, cookieVars, cfgVars, appVars>>

\* the listener setupAuthErrorDetection gives to onCompleted runs for the
\* responses on its session that match its URL pattern
Observed(p, host) == sessions[p].watcher /\ MatchesGoogle(host)

\* details.statusCode === 401 || details.statusCode === 403
IsAuthErrorStatus(status) == status \in {401, 403}

\* a response completes on partition p: webRequest.onCompleted
ResponseCompleted(p, host, status) ==
    /\ Running
    /\ \E w \in Windows : windowSession[w] = {p}
    /\ LET hit == Observed(p, host) /\ IsAuthErrorStatus(status)
           r == IF hit THEN AuthErrorCallback
                ELSE [hud |-> hudWindow, std |-> standardWindow, isQ |-> isQuitting,
                      ready |-> stdReady, calls |-> <<>>]
       IN
        /\ hudWindow' = r.hud
        /\ standardWindow' = r.std
        /\ isQuitting' = r.isQ
        /\ stdReady' = r.ready
        /\ IssuedCalls(r.calls)
        /\ Tracked(r.calls)
        /\ authErrorCalls' = IF hit THEN 1 ELSE 0
    /\ response' = {[partition |-> p, host |-> host, status |-> status]}
    /\ UNCHANGED <<hudReady, signInWindow, flows, cookieVars, cfgVars, appVars,
                   instanceVars, hotkeyVars, trayVars>>

\* ------------------------------------------------------------------------
\* A second process (index.ts)
\* ------------------------------------------------------------------------

\* A second process is started while this one runs. Its main module
\* registers app.whenReady().then(init), is refused the single-instance lock
\* and calls app.quit(), which does not end the process at once.
SecondLaunch ==
    /\ Running
    /\ secondProcess \in {"none", "exited"}
    /\ secondProcess' = "quitting"
    /\ UNCHANGED <<windowVars, pureVars, hotkeyVars, sessionVars, watcherVars, trayVars>>

\* The ready event of the second process comes before its quit has ended
\* it: init() runs there and creates a Standard Window and a HUD. Whether the
\* event or the end of the process comes first is not decided by the code.
SecondReady ==
    /\ secondProcess = "quitting"
    /\ secondProcess' = "windows"
    /\ UNCHANGED <<windowVars, pureVars, hotkeyVars, sessionVars, watcherVars, trayVars>>

\* the second process ends
SecondExit ==
    /\ secondProcess \in {"quitting", "windows"}
    /\ secondProcess' = "exited"
    /\ UNCHANGED <<windowVars, pureVars, hotkeyVars, sessionVars, watcherVars, trayVars>>

\* the second-instance event of this process, sent when a second process
\* asked for the lock
SecondInstanceEvent ==
    /\ secondProcess # "none"
    /\ SecondInstance

\* ------------------------------------------------------------------------
\* The global hot key (hotkey.ts)
\* ------------------------------------------------------------------------

\* globalShortcut.register(hotkey, callback): the OS refuses an accelerator
\* another application holds
OSAccepts(hotkey) == hotkey \notin taken

\* variant: a refused accelerator taken as fatal
RefusedQuits == <<<<"app", "quit">>>>

\* the else branch of registerHotkeyInternal: the refusal is logged
Refused == <<>>

\* registerHotkeyInternal(hotkey): unregister the current accelerator if it
\* is registered, then register the new one; currentHotkey changes on
\* success only
RegisterHotkeyInternal(hotkey) ==
    LET held == currentHotkey # {} /\ currentHotkey \subseteq registered
        freed == IF held THEN registered \ currentHotkey ELSE registered
        success == OSAccepts(hotkey)
    IN [registered |-> IF success THEN freed \cup {hotkey} ELSE freed,
        current |-> IF success THEN {hotkey} ELSE currentHotkey,
        success |-> success,
        calls |-> (IF held THEN <<<<"globalShortcut", "unregister">>>> ELSE <<>>) \o
                  <<<<"globalShortcut", "register">>>> \o
                  (IF success THEN <<>> ELSE Refused)]

\* variant: the setting written whatever registerHotkeyInternal returned
SettingAfterAlways(success, newHotkey) == newHotkey

\* if (success) setSetting('hotkey', newHotkey)
SettingAfter(success, newHotkey) == IF success THEN newHotkey ELSE storedHotkey

\* updateHotkey(newHotkey), called by the settings:setHotkey handler
UpdateHotkey(newHotkey) ==
    /\ Running
    /\ LET r == RegisterHotkeyInternal(newHotkey) IN
        /\ registered' = r.registered
        /\ currentHotkey' = r.current
        /\ storedHotkey' = SettingAfter(r.success, newHotkey)
        /\ updateResult' = {r.success}
        /\ IssuedCalls(r.calls)
    /\ UNCHANGED <<stdVars, hudVars, signInWindow, flows, cookieVars, cfgVars, appVars,
                   taken, sessionVars, instanceVars, watcherVars, trayVars>>

\* another application registers an accelerator this process does not hold
OtherAppTakes(hotkey) ==
    /\ hotkey \notin taken
    /\ hotkey \notin registered
    /\ taken' = taken \cup {hotkey}
    /\ UNCHANGED <<windowVars, pureVars, currentHotkey, storedHotkey, registered,
                   updateResult, sessionVars, instanceVars, watcherVars, trayVars>>

\* another application gives an accelerator up
OtherAppReleases(hotkey) ==
    /\ hotkey \in taken
    /\ taken' = taken \ {hotkey}
    /\ UNCHANGED <<windowVars, pureVars, currentHotkey, storedHotkey, registered,
                   updateResult, sessionVars, instanceVars, watcherVars, trayVars>>

\* the registered accelerator is pressed: the callback is toggleHUDWindow()
HotkeyPressed ==
    /\ registered # {}
    /\ ToggleHUD

\* ------------------------------------------------------------------------
\* Sign-in windows (auth-window.ts, handleSignIn in standard.ts and hud.ts)
\* ------------------------------------------------------------------------

\* createSignInWindow(url, parent): shown on creation, loading url
CreateSignInWindow(url) == [st |-> "live", url |-> url]

\* variant: handleSignIn(url) without the test of the existing window
HandleSignInAlwaysCreate(o, url) ==
    [win |-> CreateSignInWindow(url),
     calls |-> <<<<SignInName(o), "create">>, <<SignInName(o), "loadURL">>,
                 <<SignInName(o), "on did-navigate">>, <<SignInName(o), "on closed">>>>]

\* handleSignIn(url) of module o: redirect the module's sign-in window when it
\* is alive, otherwise create one and register its did-navigate and closed
\* handlers
HandleSignIn(o, url) ==
    IF SignInAlive(o)
    THEN [win |-> [signInWindow[o] EXCEPT !.url = url],
          calls |-> <<<<SignInName(o), "loadURL">>, <<SignInName(o), "show">>,
                      <<SignInName(o), "focus">>>>]
    ELSE [win |-> CreateSignInWindow(url),
          calls |-> <<<<SignInName(o), "create">>, <<SignInName(o), "loadURL">>,
                      <<SignInName(o), "on did-navigate">>, <<SignInName(o), "on closed">>>>]

\* the source window of module o
SourceWindow(o) == IF o = "std" THEN standardWindow ELSE hudWindow

\* webContents.on('will-navigate') of the Standard Window (o = "std") and of
\* the HUD (o = "hud"); the HUD hides itself before it hands over
WillNavigate(o, url) ==
    /\ Running
    /\ SourceWindow(o).st = "live"
    /\ IF IsAuthTarget(url)
       THEN /\ LET r == HandleSignIn(o, url) IN
                /\ signInWindow' = [signInWindow EXCEPT ![o] = r.win]
                /\ IF o = "hud"
                   THEN /\ hudWindow' = [hudWindow EXCEPT !.visible = FALSE]
                        /\ Issued(<<<<"hud", "preventDefault">>, <<"hud", "hide">>>> \o r.calls)
                        /\ UNCHANGED standardWindow
                   ELSE /\ Issued(<<<<"std", "preventDefault">>>> \o r.calls)
                        /\ UNCHANGED <<standardWindow, hudWindow>>
       ELSE /\ SourceWindow(o).page # url
            /\ IF o = "hud"
               THEN /\ hudWindow' = [hudWindow EXCEPT !.page = url]
                    /\ UNCHANGED standardWindow
               ELSE /\ standardWindow' = [standardWindow EXCEPT !.page = url]
                    /\ UNCHANGED hudWindow
            /\ Issued(<<>>)
            /\ UNCHANGED <<signInWindow>>
    /\ UNCHANGED <<isQuitting, stdReady, hudReady, flows, cookieVars, cfgVars, appVars>>

\* webContents.setWindowOpenHandler of both windows: always deny
WindowOpen(o, url) ==
    /\ Running
    /\ SourceWindow(o).st = "live"
    /\ IF IsAuthTarget(url)
       THEN /\ LET r == HandleSignIn(o, url) IN
                /\ signInWindow' = [signInWindow EXCEPT ![o] = r.win]
                /\ Issued(r.calls \o <<<<o, "deny">>>>)
       ELSE /\ Issued(<<<<"shell", "openExternal">>, <<o, "deny">>>>)
            /\ UNCHANGED <<signInWindow>>
    /\ UNCHANGED <<stdVars, hudVars, flows, cookieVars, cfgVars, appVars>>

\* the user closes a sign-in window
SignInClose(o) ==
    /\ Running
    /\ signInWindow[o].st = "live"
    /\ signInWindow' = [signInWindow EXCEPT ![o] = Closing(signInWindow[o])]
    /\ Issued(<<>>)
    /\ UNCHANGED <<stdVars, hudVars, flows, cookieVars, cfgVars, appVars>>

\* variant: the closed handler leaving the module variable on the destroyed
\* window
SignInClosedKeepsReference(o) ==
    /\ Running
    /\ signInWindow[o].st = "closing"
    /\ signInWindow' = [signInWindow EXCEPT ![o].st = "destroyed"]
    /\ flows' = MarkStale(flows, o)
    /\ exited' = EndsWithLastWindow(standardWindow, hudWindow, signInWindow')
    /\ Gone({SignInName(o)})
    /\ UNCHANGED <<stdVars, hudVars, cookieVars, cfgVars, appQuitting, beforeQuitFired>>

\* signInWindow.on('closed'): signInWindow = null
SignInClosed(o) ==
    /\ Running
    /\ signInWindow[o].st = "closing"
    /\ signInWindow' = [signInWindow EXCEPT ![o] = NoSignIn]
    /\ flows' = MarkStale(flows, o)
    /\ exited' = EndsWithLastWindow(standardWindow, hudWindow, signInWindow')
    /\ Gone({SignInName(o)})
    /\ UNCHANGED <<stdVars, hudVars, cookieVars, cfgVars, appQuitting, beforeQuitFired>>

\* ------------------------------------------------------------------------
\* Sign-in completion: the did-navigate handler and the cookie relay
\* ------------------------------------------------------------------------

\* the cookies returned by signInSession.cookies.get({ domain: '.google.com' })
RECURSIVE CookiesOf(_, _)
CookiesOf(jar, order) ==
    IF order = <<>> THEN <<>>
    ELSE (IF jar[Head(order)] # 0 /\ MatchesDomain(Head(order), ".google.com")
          THEN <<<<Head(order), jar[Head(order)]>>>>
          ELSE <<>>) \o CookiesOf(jar, Tail(order))

\* variant: copyAuthCookies() called without await
RelayResolvedNoAwait(pending) == TRUE

\* await copyAuthCookies(): the handler resumes when every cookie write of
\* the relay has resolved
RelayResolved(pending) == pending = <<>>

RemoveAt(seq, i) == SubSeq(seq, 1, i - 1) \o SubSeq(seq, i + 1, Len(seq))

\* The suspended handlers form a multiset: the event loop may resume any of
\* them. It is kept as a sequence ordered by FlowRank.
FlowRank(f) ==
    (IF f.owner = "std" THEN 0 ELSE 1) + 2 * (IF f.pc = "get" THEN 0 ELSE Len(f.pending))

RECURSIVE InsertFlow(_, _)
InsertFlow(fs, f) ==
    IF fs = <<>> THEN <<f>>
    ELSE IF FlowRank(f) <= FlowRank(Head(fs)) THEN <<f>> \o fs
    ELSE <<Head(fs)>> \o InsertFlow(Tail(fs), f)

\* signInWindow?.close() in module o
CloseSignIn(o) ==
    IF signInWindow[o].st # "none"
    THEN [sign |-> [signInWindow EXCEPT ![o] = Closing(signInWindow[o])],
          calls |-> <<<<SignInName(o), "close">>>>]
    ELSE [sign |-> signInWindow, calls |-> <<>>]

\* reload, show and focus the Standard Window if it is not destroyed
ReloadStandard ==
    IF ~IsDestroyed(standardWindow)
    THEN [win |-> [standardWindow EXCEPT !.page = GEMINI_URL, !.visible = TRUE],
          calls |-> <<<<"std", "loadURL">>, <<"std", "show">>, <<"std", "focus">>>>]
    ELSE [win |-> standardWindow, calls |-> <<>>]

\* the Standard Window's handler also reloads the HUD if it is not destroyed
ReloadHUDOnly ==
    IF ~IsDestroyed(hudWindow)
    THEN [win |-> [hudWindow EXCEPT !.page = GEMINI_URL],
          calls |-> <<<<"hud", "loadURL">>>>]
    ELSE [win |-> hudWindow, calls |-> <<>>]

\* variant: the HUD's handler reloading the HUD without show() and focus()
ReloadHUDNoShow ==
    IF ~IsDestroyed(hudWindow)
    THEN [win |-> [hudWindow EXCEPT !.page = GEMINI_URL],
          calls |-> <<<<"hud", "loadURL">>>>]
    ELSE [win |-> hudWindow, calls |-> <<>>]

\* the HUD's handler reloads, shows and focuses the HUD if it is not destroyed
ReloadHUD ==
    IF ~IsDestroyed(hudWindow)
    THEN [win |-> [hudWindow EXCEPT !.page = GEMINI_URL, !.visible = TRUE],
          calls |-> <<<<"hud", "loadURL">>, <<"hud", "show">>, <<"hud", "focus">>>>]
    ELSE [win |-> hudWindow, calls |-> <<>>]

\* what the did-navigate handler of module o does after the await
Completion(o) ==
    LET c == CloseSignIn(o) IN
    IF o = "std"
    THEN LET p == ReloadStandard
             h == ReloadHUDOnly
         IN [sign |-> c.sign, std |-> p.win, hud |-> h.win,
             calls |-> c.calls \o p.calls \o h.calls]
    ELSE LET h == ReloadHUD
         IN [sign |-> c.sign, std |-> standardWindow, hud |-> h.win,
             calls |-> c.calls \o h.calls]

\* the flows left when flow f has completed: those started by the same
\* sign-in window, still open, remember that the HUD was already reloaded for it
MarkPrior(fs, f, reloads) ==
    [j \in DOMAIN fs |->
        IF reloads /\ fs[j].owner = f.owner /\ ~fs[j].stale /\ ~f.stale
        THEN [fs[j] EXCEPT !.prior = TRUE]
        ELSE fs[j]]

\* flow i resumes after the await, having issued the calls pre, with the
\* cookie writes pend of its relay unresolved
Resume(i, pre, pend) ==
    LET f == flows[i]
        r == Completion(f.owner)
        reloads == CountCalls(r.calls, "hud", "loadURL") > 0
    IN  /\ signInWindow' = r.sign
        /\ standardWindow' = r.std
        /\ hudWindow' = r.hud
        /\ flows' = MarkPrior(RemoveAt(flows, i), f, reloads)
        /\ calls' = pre \o r.calls
        /\ relayLeft' = Len(pend)
        /\ cycleReloads' = IF reloads THEN (IF f.prior THEN 2 ELSE 1) ELSE 0
        /\ UNCHANGED <<hudLoads, pureVars, sessionVars, quietVars>>

\* flow i stays suspended at the await
Suspend(i, pre, pend) ==
    /\ flows' = InsertFlow(RemoveAt(flows, i), [flows[i] EXCEPT !.pc = "set", !.pending = pend])
    /\ Issued(pre)
    /\ UNCHANGED <<standardWindow, hudWindow, signInWindow>>

\* signInWindow.webContents.on('did-navigate') of module o: on the wrapped
\* site the handler starts the relay and suspends
SignInNavigate(o, navUrl) ==
    /\ Running
    /\ signInWindow[o].st = "live"
    /\ signInWindow' = [signInWindow EXCEPT ![o].url = navUrl]
    /\ IF IsSignInSuccess(navUrl)
       THEN /\ Len(flows) < MaxFlows
            /\ flows' = InsertFlow(flows, [owner |-> o, pc |-> "get", pending |-> <<>>,
                                           prior |-> FALSE, stale |-> FALSE])
            /\ Issued(<<<<"clean", "get">>>>)
       ELSE /\ UNCHANGED flows
            /\ Issued(<<>>)
    /\ UNCHANGED <<stdVars, hudVars, cookieVars, cfgVars, appVars>>

\* copyAuthCookies: cookies.get resolves; the first write is issued
RelayGet(i) ==
    /\ Running
    /\ i \in DOMAIN flows
    /\ flows[i].pc = "get"
    /\ LET pend == CookiesOf(clean, CookieOrder) IN
        IF RelayResolved(pend)
        THEN Resume(i, <<>>, pend)
        ELSE Suspend(i, <<>>, pend)
    /\ UNCHANGED <<isQuitting, stdReady, hudReady, cookieVars, cfgVars, appVars>>

\* variant: a failed write leaving the loop
RemainingAbort(pending, ok) == IF ok THEN Tail(pending) ELSE <<>>

\* the cookies still to write when a write has resolved: the catch block
\* ignores the error and the loop goes on
Remaining(pending, ok) == Tail(pending)

\* copyAuthCookies: one mainSession.cookies.set resolves, written or thrown
\* and ignored; the next write is issued
RelaySet(i, ok) ==
    /\ Running
    /\ i \in DOMAIN flows
    /\ flows[i].pc = "set"
    /\ flows[i].pending # <<>>
    /\ LET c == Head(flows[i].pending)
           pend == Remaining(flows[i].pending, ok)
       IN /\ spoofed' = IF ok THEN [spoofed EXCEPT ![c[1]] = c[2]] ELSE spoofed
          /\ IF RelayResolved(pend)
             THEN Resume(i, <<<<"spoofed", "set">>>>, pend)
             ELSE Suspend(i, <<<<"spoofed", "set">>>>, pend)
    /\ UNCHANGED <<isQuitting, stdReady, hudReady, clean, cfgVars, appVars>>

\* ------------------------------------------------------------------------
\* One cookie through the relay, attribute by attribute (copyAuthCookies)
\* ------------------------------------------------------------------------

\* a domain attribute is a host name with or without a leading dot: a domain
\* cookie of google.com or of accounts.google.com, or a host-only cookie of
\* accounts.google.com; cookies.get({ domain: '.google.com' }) returns all three
CookieDomains ==
    {[dot |-> TRUE, host |-> "google.com"],
     [dot |-> TRUE, host |-> "accounts.google.com"],
     [dot |-> FALSE, host |-> "accounts.google.com"]}

SameSitePolicies == {"unspecified", "no_restriction", "lax", "strict"}

\* the cookies signInSession.cookies.get can return; a session cookie has no
\* expirationDate
CleanCookies ==
    {c \in [name : {"SID"}, value : {1, 2}, domain : CookieDomains, hostOnly : BOOLEAN,
            path : {"/", "/signin"}, secure : BOOLEAN, httpOnly : BOOLEAN,
            expirationDate : {{}, {1}}, sameSite : SameSitePolicies] :
        c.hostOnly = ~c.domain.dot}

\* cookie.domain?.replace(/^\./, '')
StripDot(d) == [d EXCEPT !.dot = FALSE]

\* the details object built for mainSession.cookies.set
CookieDetails(c) ==
    [url |-> <<"https", StripDot(c.domain).host, c.path>>,
     name |-> c.name,
     value |-> c.value,
     domain |-> c.domain,
     path |-> c.path,
     secure |-> c.secure,
     httpOnly |-> c.httpOnly,
     expirationDate |-> c.expirationDate,
     sameSite |-> c.sameSite]

\* the cookie cookies.set stores: one given a domain is stored as a domain
\* cookie, its domain normalised with a leading dot
StoreCookie(d) ==
    [name |-> d.name,
     value |-> d.value,
     domain |-> [d.domain EXCEPT !.dot = TRUE],
     hostOnly |-> FALSE,
     path |-> d.path,
     secure |-> d.secure,
     httpOnly |-> d.httpOnly,
     expirationDate |-> d.expirationDate,
     sameSite |-> d.sameSite]

\* the cookie store keeps one cookie for each name, domain and path, the
\* domain of a domain cookie counted with its leading dot: a host-only cookie
\* and a domain cookie of the same host are two cookies
SameKey(a, b) == a.name = b.name /\ a.domain = b.domain /\ a.path = b.path

\* mainSession.cookies.set on the jar: the stored cookie replaces the one of
\* the same key, every other cookie stays
SetCookie(jar, c) == {w \in jar : ~SameKey(w, c)} \cup {c}

\* one turn of the loop of copyAuthCookies: the write succeeds, or throws and
\* is ignored
CopyCookie(ok) ==
    /\ Running
    /\ ~Called("spoofed", "set")
    /\ written' = IF ok THEN SetCookie(written, StoreCookie(CookieDetails(cookie))) ELSE written
    /\ calls' = <<<<"clean", "get">>, <<"spoofed", "set">>>>
    /\ UNCHANGED <<stdVars, hudVars, signInWindow, flows, cookieVars, cfgVars, appVars,
                   relayLeft, hudLoads, cycleReloads, cookie, savedBounds, defaultBounds,
                   displays, resolved, sessionVars, quietVars>>

\* ------------------------------------------------------------------------
\* Window bounds (store.ts)
\* ------------------------------------------------------------------------

\* variant: the position tested for truthiness, so that 0 counts as absent
HasPositionTruthy(bounds) == bounds.x \notin {{}, {0}} /\ bounds.y \notin {{}, {0}}

\* bounds.x !== undefined && bounds.y !== undefined; an absent coordinate is
\* the empty set, a present one the set of its value
HasPosition(bounds) == bounds.x # {} /\ bounds.y # {}

\* the value of a present coordinate
Val(c) == CHOOSE v \in c : TRUE

\* variant: the top-left corner of the window tested instead of its centre
CornerInDisplay(bounds, db) ==
    /\ Val(bounds.x) >= db.x
    /\ Val(bounds.x) < db.x + db.width
    /\ Val(bounds.y) >= db.y
    /\ Val(bounds.y) < db.y + db.height

\* variant: the right and the bottom edge of the display taken as inside
CenterInDisplayClosed(bounds, db) ==
    LET centerX2 == 2 * Val(bounds.x) + bounds.width
        centerY2 == 2 * Val(bounds.y) + bounds.height
    IN /\ centerX2 >= 2 * db.x
       /\ centerX2 <= 2 * (db.x + db.width)
       /\ centerY2 >= 2 * db.y
       /\ centerY2 <= 2 * (db.y + db.height)

\* the centre of the window lies in the display; lengths are doubled to keep
\* width / 2 an integer
CenterInDisplay(bounds, db) ==
    LET centerX2 == 2 * Val(bounds.x) + bounds.width
        centerY2 == 2 * Val(bounds.y) + bounds.height
    IN /\ centerX2 >= 2 * db.x
       /\ centerX2 < 2 * (db.x + db.width)
       /\ centerY2 >= 2 * db.y
       /\ centerY2 < 2 * (db.y + db.height)

\* variant: displays.every(...)
IsVisibleOnEvery(bounds, ds) == \A db \in ds : CenterInDisplay(bounds, db)

\* displays.some(...)
IsVisible(bounds, ds) == \E db \in ds : CenterInDisplay(bounds, db)

\* { ...defaults, x: undefined, y: undefined }
Fallback(defaults) ==
    [x |-> {}, y |-> {}, width |-> defaults.width, height |-> defaults.height]

EnsureVisibleBounds(bounds, defaults, ds) ==
    IF ~HasPosition(bounds) THEN Fallback(defaults)
    ELSE IF IsVisible(bounds, ds) THEN bounds
    ELSE Fallback(defaults)

\* the stored bounds: either coordinate may be missing, and a window may
\* reach over the left and the top edge of the displays
StoredBounds ==
    [x : {{}} \cup {{v} : v \in -MaxCoord..MaxCoord},
     y : {{}} \cup {{v} : v \in -1..MaxCoord},
     width : 1..MaxSize,
     height : 1..MaxSize]

\* two displays side by side, the second one the primary at the origin
Displays ==
    {[x |-> -MaxCoord, y |-> 0, width |-> MaxCoord, height |-> MaxCoord],
     [x |-> 0, y |-> 0, width |-> MaxCoord, height |-> MaxCoord]}

\* getWindowBounds(windowType): the stored bounds checked against the
\* displays attached now
GetWindowBounds ==
    /\ Running
    /\ resolved = {}
    /\ resolved' = {EnsureVisibleBounds(savedBounds, defaultBounds, displays)}
    /\ UNCHANGED <<windowVars, cookie, written, savedBounds, defaultBounds, displays,
                   sessionVars, quietVars>>

\* ------------------------------------------------------------------------
\* Specification
\* ------------------------------------------------------------------------

\* The window lifecycle: show, hide, toggle, close and quit, page
\* navigation inside the wrapped site, and the auth-error callback.
Next ==
    \/ TrayShow
    \/ Activate
    \/ SecondInstance
    \/ StdReadyToShow
    \/ \E b \in {"tray", "quit"} : SetCloseBehavior(b)
    \/ TrayQuit
    \/ PrimaryClose
    \/ StdClosed
    \/ ShowHUD
    \/ HideHUD
    \/ ToggleHUD
    \/ IpcHudHide
    \/ HudReadyToShow
    \/ HudClose
    \/ HudClosed
    \/ AuthError
    \/ \E o \in Owners : WillNavigate(o, GEMINI_APP)

Spec == Init /\ [][Next]_vars

\* The sign-in flow: interception in both windows, the sign-in windows, the
\* relay and the completion handlers, with the HUD toggled and closed.
NextSignIn ==
    \/ \E o \in Owners : WillNavigate(o, AUTH_URL)
    \/ \E o \in Owners : WindowOpen(o, AUTH_URL)
    \/ \E o \in Owners : SignInClosed(o)
    \/ \E o \in Owners : SignInNavigate(o, GEMINI_URL)
    \/ \E i \in 1..MaxFlows : RelayGet(i)
    \/ \E i \in 1..MaxFlows, ok \in BOOLEAN : RelaySet(i, ok)
    \/ ToggleHUD
    \/ HudClose
    \/ HudClosed

InitSignIn ==
    /\ Init
    /\ closeBehavior = "tray"
    /\ ~hiddenLaunch
    /\ clean = [NoCookies EXCEPT !["SID"] = 1]
    /\ spoofed = NoCookies

SpecSignIn == InitSignIn /\ [][NextSignIn]_vars

\* The relay: sign-in windows of both modules complete, or are closed by the
\* user, over the cookies an earlier run persisted; the other windows are
\* left alone.
NextRelay ==
    \/ \E o \in Owners : WillNavigate(o, AUTH_URL)
    \/ \E o \in Owners : SignInNavigate(o, GEMINI_URL)
    \/ \E o \in Owners : SignInClose(o)
    \/ \E o \in Owners : SignInClosed(o)
    \/ \E i \in 1..MaxFlows : RelayGet(i)
    \/ \E i \in 1..MaxFlows, ok \in BOOLEAN : RelaySet(i, ok)

InitRelay ==
    /\ Init
    /\ closeBehavior = "tray"
    /\ ~hiddenLaunch
    /\ clean["NID"] = clean["SID"]
    /\ spoofed["EXT"] = 1

SpecRelay == InitRelay /\ [][NextRelay]_vars

\* The writes of the relay: sign-in windows of both modules complete over
\* cookie writes that succeed or fail, no window closed by the user.
NextWrites ==
    \/ \E o \in Owners : WillNavigate(o, AUTH_URL)
    \/ \E o \in Owners : SignInNavigate(o, GEMINI_URL)
    \/ \E o \in Owners : SignInClosed(o)
    \/ \E i \in 1..MaxFlows : RelayGet(i)
    \/ \E i \in 1..MaxFlows, ok \in BOOLEAN : RelaySet(i, ok)

InitWrites == InitRelay

SpecWrites == InitWrites /\ [][NextWrites]_vars

\* Landing: the sign-in windows of both modules navigate to every kind of
\* URL of a sign-in, and the relays they start run to their end.
NextLanding ==
    \/ \E o \in Owners : WillNavigate(o, AUTH_URL)
    \/ \E o \in Owners, navUrl \in LANDING_URLS : SignInNavigate(o, navUrl)
    \/ \E o \in Owners : SignInClosed(o)
    \/ \E i \in 1..MaxFlows : RelayGet(i)
    \/ \E i \in 1..MaxFlows : RelaySet(i, TRUE)

InitLanding == InitSignIn

SpecLanding == InitLanding /\ [][NextLanding]_vars

\* Sessions: windows of the three kinds created, closed and created again.
NextSessions ==
    \/ Activate
    \/ PrimaryClose
    \/ StdClosed
    \/ ShowHUD
    \/ HudClose
    \/ HudClosed
    \/ \E o \in Owners : WillNavigate(o, AUTH_URL)
    \/ \E o \in Owners : SignInClose(o)
    \/ \E o \in Owners : SignInClosed(o)

InitSessionsOnly ==
    /\ Init
    /\ ~hiddenLaunch
    /\ clean = NoCookies
    /\ spoofed = NoCookies

SpecSessions == InitSessionsOnly /\ [][NextSessions]_vars

\* Responses: responses of every host and status complete on both
\* partitions, with the HUD shown, hidden, closed and created again and the
\* windows navigating inside the wrapped site.
NextWatcher ==
    \/ \E p \in Partitions, host \in ResponseHosts, status \in Statuses :
          ResponseCompleted(p, host, status)
    \/ \E o \in Owners : WillNavigate(o, AUTH_URL)
    \/ \E o \in Owners : WillNavigate(o, GEMINI_APP)
    \/ ShowHUD
    \/ HideHUD
    \/ HudReadyToShow
    \/ HudClose
    \/ HudClosed

InitWatcherOnly ==
    /\ Init
    /\ closeBehavior = "tray"
    /\ ~hiddenLaunch
    /\ clean = NoCookies
    /\ spoofed = NoCookies

SpecWatcher == InitWatcherOnly /\ [][NextWatcher]_vars

\* The tray: the HUD toggled, shown, closed by the user and created again,
\* and the tray icon clicked.
NextTray ==
    \/ ToggleHUD
    \/ ShowHUD
    \/ HudReadyToShow
    \/ HudClose
    \/ HudClosed
    \/ TrayClick

InitTrayOnly ==
    /\ Init
    /\ clean = NoCookies
    /\ spoofed = NoCookies

SpecTray == InitTrayOnly /\ [][NextTray]_vars

\* The hot key: accelerators changed in the settings while other
\* applications take and release them, and the registered one pressed.
NextHotkey ==
    \/ \E h \in Hotkeys : UpdateHotkey(h)
    \/ \E h \in Hotkeys : OtherAppTakes(h)
    \/ \E h \in Hotkeys : OtherAppReleases(h)
    \/ HotkeyPressed

\* registerHotkeys() of init() over every stored accelerator, taken or free
InitHotkeysAny ==
    /\ storedHotkey \in Hotkeys
    /\ taken \in SUBSET Hotkeys
    /\ currentHotkey = IF storedHotkey \in taken THEN {} ELSE {storedHotkey}
    /\ registered = currentHotkey
    /\ updateResult = {}

InitHotkeyOnly ==
    /\ InitWindows
    /\ InitIdle
    /\ InitInstance
    /\ InitHotkeysAny
    /\ InitSessions
    /\ InitWatcher
    /\ InitTray
    /\ closeBehavior = "tray"
    /\ ~hiddenLaunch
    /\ clean = NoCookies
    /\ spoofed = NoCookies

SpecHotkey == InitHotkeyOnly /\ [][NextHotkey]_vars

\* Instances: second processes started while this one shows, hides, closes
\* and quits.
NextInstance ==
    \/ SecondLaunch
    \/ SecondReady
    \/ SecondExit
    \/ SecondInstanceEvent
    \/ TrayShow
    \/ StdReadyToShow
    \/ PrimaryClose
    \/ StdClosed
    \/ HudClosed

InitInstanceOnly ==
    /\ Init
    /\ clean = NoCookies
    /\ spoofed = NoCookies

SpecInstance == InitInstanceOnly /\ [][NextInstance]_vars

\* Termination: quits asked for by the user among auth errors, relays with
\* failing writes, refused hot keys and windows closed one after the other.
NextQuit ==
    \/ TrayQuit
    \/ PrimaryClose
    \/ StdClosed
    \/ ToggleHUD
    \/ HudClose
    \/ HudClosed
    \/ AuthError
    \/ WillNavigate("std", AUTH_URL)
    \/ SignInNavigate("std", GEMINI_URL)
    \/ SignInClosed("std")
    \/ \E i \in 1..MaxFlows : RelayGet(i)
    \/ \E i \in 1..MaxFlows : RelaySet(i, FALSE)
    \/ \E h \in taken : UpdateHotkey(h)

InitQuit ==
    /\ InitWindows
    /\ InitIdle
    /\ InitInstance
    /\ InitHotkeysAny
    /\ storedHotkey = DefaultHotkey
    /\ taken = {"F9"}
    /\ InitSessions
    /\ InitWatcher
    /\ InitTray
    /\ ~hiddenLaunch
    /\ clean = [NoCookies EXCEPT !["SID"] = 1]
    /\ spoofed = NoCookies

SpecQuit == InitQuit /\ [][NextQuit]_vars

\* Showing the Standard Window: the tray asks for it while the window is
\* hidden to the tray, closed by a quit and created again, in a process
\* launched hidden or not. The ready-to-show event of a window that exists
\* and the closed event of a window that closes are not withheld for ever.
NextShow ==
    \/ TrayShow
    \/ StdReadyToShow
    \/ \E b \in {"tray", "quit"} : SetCloseBehavior(b)
    \/ TrayQuit
    \/ PrimaryClose
    \/ StdClosed
    \/ HudClosed

InitShow ==
    /\ Init
    /\ clean = NoCookies
    /\ spoofed = NoCookies

SpecShow == InitShow /\ [][NextShow]_vars /\ WF_vars(StdReadyToShow) /\ WF_vars(StdClosed)

\* Navigation: will-navigate and window-open requests of both windows to
\* every kind of URL, with the sign-in windows closed by the user.
NextNav ==
    \/ \E o \in Owners, url \in URLS : WillNavigate(o, url)
    \/ \E o \in Owners, url \in URLS : WindowOpen(o, url)
    \/ \E o \in Owners : SignInClose(o)
    \/ \E o \in Owners : SignInClosed(o)

InitNav ==
    /\ Init
    /\ closeBehavior = "tray"
    /\ ~hiddenLaunch
    /\ clean = NoCookies
    /\ spoofed = NoCookies

SpecNav == InitNav /\ [][NextNav]_vars

\* the cookies persist:gemini may hold before a relay: set by the pages of
\* the wrapped site or left by an earlier relay
HeldCookies ==
    {c \in [name : {"SID"}, value : {3}, domain : CookieDomains, hostOnly : BOOLEAN,
            path : {"/"}, secure : {TRUE}, httpOnly : {TRUE},
            expirationDate : {{1}}, sameSite : {"lax"}] :
        c.hostOnly = ~c.domain.dot}

\* One cookie of the clean partition copied into a spoofed partition that
\* already holds a cookie.
NextHeld == \E ok \in BOOLEAN : CopyCookie(ok)

InitHeld ==
    /\ InitWindows
    /\ closeBehavior = "tray"
    /\ ~hiddenLaunch
    /\ clean = NoCookies
    /\ spoofed = NoCookies
    /\ cookie \in CleanCookies
    /\ \E h \in HeldCookies : written = {h}
    /\ savedBounds = [x |-> {}, y |-> {}, width |-> 1, height |-> 1]
    /\ defaultBounds = [width |-> 1, height |-> 1]
    /\ displays = {}
    /\ resolved = {}
    /\ InitQuiet

SpecHeld == InitHeld /\ [][NextHeld]_vars

\* One cookie of the clean partition copied by the loop of the relay.
NextCookie == \E ok \in BOOLEAN : CopyCookie(ok)

InitCookie ==
    /\ InitWindows
    /\ closeBehavior = "tray"
    /\ ~hiddenLaunch
    /\ clean = NoCookies
    /\ spoofed = NoCookies
    /\ cookie \in CleanCookies
    /\ written = {}
    /\ savedBounds = [x |-> {}, y |-> {}, width |-> 1, height |-> 1]
    /\ defaultBounds = [width |-> 1, height |-> 1]
    /\ displays = {}
    /\ resolved = {}
    /\ InitQuiet

SpecCookie == InitCookie /\ [][NextCookie]_vars

\* The bounds of a window resolved over every stored entry, default size
\* and set of attached displays.
NextBounds == GetWindowBounds

InitBounds ==
    /\ InitWindows
    /\ closeBehavior = "tray"
    /\ ~hiddenLaunch
    /\ clean = NoCookies
    /\ spoofed = NoCookies
    /\ cookie = [name |-> "SID", value |-> 1, domain |-> [dot |-> TRUE, host |-> "google.com"],
                 hostOnly |-> FALSE, path |-> "/", secure |-> TRUE, httpOnly |-> TRUE,
                 expirationDate |-> {}, sameSite |-> "unspecified"]
    /\ written = {}
    /\ savedBounds \in StoredBounds
    /\ defaultBounds \in [width : 1..MaxSize, height : 1..MaxSize]
    /\ displays \in SUBSET Displays
    /\ resolved = {}
    /\ InitQuiet

SpecBounds == InitBounds /\ [][NextBounds]_vars

TypeOK ==
    /\ standardWindow.st \in {"live", "closing", "destroyed"}
    /\ hudWindow.st \in {"live", "closing", "destroyed"}
    /\ \A o \in Owners : signInWindow[o].st \in {"none", "live", "closing"}
    /\ Len(flows) <= MaxFlows

\* ------------------------------------------------------------------------
\* Properties
\* ------------------------------------------------------------------------

IsLoad(c) == c[2] = "loadURL" /\ c[1] \in {"std", "hud"}

\* the handler of flow i runs to its end in this step
Completes(i) ==
    /\ i \in DOMAIN flows
    /\ Len(flows') < Len(flows)
    /\ RelayGet(i) \/ RelaySet(i, TRUE) \/ RelaySet(i, FALSE)

\* the auth-error callback runs while the HUD is live and visible
AuthErrorWhileVisible == AuthError /\ ~IsDestroyed(hudWindow) /\ hudWindow.visible

\* C1: a sign-in completion issues loadURL on the Standard Window or the HUD
\* only when no cookie write of its relay is unresolved, and after the last
\* write in the order of its calls.
C1_RelayBeforeReload ==
    /\ (Called("std", "loadURL") \/ Called("hud", "loadURL")) => relayLeft = 0
    /\ \A i, j \in DOMAIN calls :
         (IsLoad(calls[i]) /\ calls[j][1] \in {"clean", "spoofed"}) => j < i

\* C1 witness: the HUD's completion handler reloads the HUD in the step in
\* which the second of two cookie writes resolved.
C1_Witness ==
    /\ calls = <<<<"spoofed", "set">>, <<"signin_hud", "close">>, <<"hud", "loadURL">>,
                 <<"hud", "show">>, <<"hud", "focus">>>>
    /\ spoofed["SID"] = 1
    /\ spoofed["NID"] = 1

\* C2: at most one sign-in window exists in the whole application.
C2_SingleSignIn == Cardinality({o \in Owners : signInWindow[o].st # "none"}) <= 1

\* C3: show, hide, toggle and hud:hide on a HUD that is not destroyed never
\* call its loadURL, and outside sign-in completion every HUD window received
\* exactly one loadURL, the one of its creation.
C3_HudNeverReloadedOnToggle ==
    /\ [](hudLoads = 1)
    /\ [][((ShowHUD \/ HideHUD \/ ToggleHUD \/ IpcHudHide \/ HudReadyToShow)
            /\ ~IsDestroyed(hudWindow))
          => (~Called("hud", "loadURL")' /\ ~Called("hud", "create")'
              /\ hudWindow'.page = hudWindow.page)]_vars

\* C3 witness: the HUD, showing a conversation, was shown again without a
\* reload.
C3_Witness ==
    /\ calls = <<<<"hud", "show">>, <<"hud", "focus">>, <<"hud", "send">>>>
    /\ hudWindow.visible
    /\ hudWindow.page = GEMINI_APP

\* C4: the completions of one sign-in window call the HUD's loadURL at most
\* once.
C4_OneReloadPerCycle == cycleReloads <= 1

\* position of the first call op on window w in a sequence of calls, or one
\* past its end
FirstCall(cs, w, op) ==
    IF \E j \in DOMAIN cs : cs[j] = <<w, op>>
    THEN CHOOSE j \in DOMAIN cs : cs[j] = <<w, op>> /\ \A k \in 1..(j - 1) : cs[k] # <<w, op>>
    ELSE Len(cs) + 1

\* C5: the auth-error callback, run while the HUD is live and visible, hides
\* the HUD without destroying, re-creating or reloading it, and the Standard
\* Window is at the root URL and shown, or will be when a window created by
\* the step is ready.
C5_AuthErrorSwitchesWindows ==
    [][AuthErrorWhileVisible =>
         /\ ~hudWindow'.visible
         /\ hudWindow'.st = hudWindow.st
         /\ hudWindow'.page = hudWindow.page
         /\ ~Called("hud", "loadURL")' /\ ~Called("hud", "create")'
         /\ Called("std", "loadURL")'
         /\ ~IsDestroyed(standardWindow')
         /\ standardWindow'.page = GEMINI_URL
         /\ standardWindow'.visible \/ (stdReady' /\ ~hiddenLaunch)]_vars

C7_BothWindowsReloaded ==
    [][\A i \in 1..MaxFlows : Completes(i) =>
         /\ ~IsDestroyed(standardWindow) => Called("std", "loadURL")'
         /\ ~IsDestroyed(hudWindow) => Called("hud", "loadURL")']_vars

\* C8: a completing sign-in flow leaves the window of its module, if not
\* destroyed, visible and holding the focus.
C8_InitiatorShownAndFocused ==
    [][\A i \in 1..MaxFlows : Completes(i) =>
         LET o == flows[i].owner
             w == IF o = "std" THEN standardWindow ELSE hudWindow
             wAfter == IF o = "std" THEN standardWindow' ELSE hudWindow'
         IN ~IsDestroyed(w) =>
              /\ wAfter.visible
              /\ wAfter.page = GEMINI_URL
              /\ FocusAfter(calls', "none") = o]_vars

\* C8 witness: the HUD, hidden when it intercepted the navigation, was shown
\* and focused by its completion handler.
C8_Witness ==
    /\ calls = <<<<"spoofed", "set">>, <<"signin_hud", "close">>, <<"hud", "loadURL">>,
                 <<"hud", "show">>, <<"hud", "focus">>>>
    /\ hudWindow.visible
    /\ hudWindow.st = "live"
    /\ ~standardWindow.visible \/ standardWindow.page = GEMINI_URL

\* C9: a close of the Standard Window while no quit is in progress is
\* prevented and hides the window when closeBehavior is 'tray' at that moment,
\* and is let through with app.quit() called when it is 'quit'.
C9_CloseBehavior ==
    [][(PrimaryClose /\ ~appQuitting) =>
         /\ closeBehavior = "tray" =>
              /\ Called("std", "preventDefault")'
              /\ Called("std", "hide")'
              /\ ~Called("app", "quit")'
              /\ ~standardWindow'.visible
              /\ standardWindow'.st = "live"
         /\ closeBehavior = "quit" =>
              /\ ~Called("std", "preventDefault")'
              /\ Called("app", "quit")'
              /\ standardWindow'.st = "closing"
              /\ beforeQuitFired']_vars

\* C9 witness: with closeBehavior 'tray' and no quit ever requested, the
\* Standard Window's close was prevented and the window hidden.
C9_Witness ==
    /\ calls = <<<<"std", "preventDefault">>, <<"std", "hide">>>>
    /\ closeBehavior = "tray"
    /\ ~beforeQuitFired
    /\ standardWindow.st = "live"
    /\ ~standardWindow.visible

\* C10: once before-quit has fired no close of a Standard Window is prevented.
C10_NoPreventAfterBeforeQuit ==
    ~(beforeQuitFired /\ Called("std", "preventDefault"))

\* a request to show the Standard Window
ShowRequest == TrayShow \/ Activate \/ SecondInstance \/ AuthErrorWhileVisible

\* C11: every request to show the Standard Window that leaves a window
\* visible has loaded the root URL in it.
C11_ShowReloads ==
    [][(ShowRequest /\ standardWindow'.visible) =>
         /\ Called("std", "loadURL")'
         /\ standardWindow'.page = GEMINI_URL]_vars

\* the URLs on the identity provider's authentication domain
AuthDomainURLs == {url \in URLS : Host(url) = AUTH_HOST}

\* the URLs on neither the wrapped site's nor the identity provider's domain
ForeignURLs == {url \in URLS : Host(url) \notin {GEMINI_HOST, AUTH_HOST}}

\* C12: a will-navigate or window-open request of either window to a URL on
\* the authentication domain is cancelled at the source, whose page stays,
\* and the URL is loaded in the sign-in window of the module, which is shown
\* and holds the focus.
C12_AuthNavigationRedirected ==
    [][\A o \in Owners, url \in AuthDomainURLs :
         LET redirected ==
               /\ SourceWindow(o)' .page = SourceWindow(o).page
               /\ ~Called("shell", "openExternal")'
               /\ signInWindow'[o].st # "none"
               /\ signInWindow'[o].url = url
               /\ Called(SignInName(o), "loadURL")'
               /\ FocusAfter(calls', "none") = SignInName(o)
         IN /\ WillNavigate(o, url) => (Called(o, "preventDefault")' /\ redirected)
            /\ WindowOpen(o, url) => (Called(o, "deny")' /\ redirected)]_vars

\* C12 witness: the HUD, navigating to the sign-in page that continues to
\* the wrapped site, kept its page, hid, and a sign-in window loads that URL.
C12_Witness ==
    /\ calls = <<<<"hud", "preventDefault">>, <<"hud", "hide">>,
                 <<"signin_hud", "create">>, <<"signin_hud", "loadURL">>,
                 <<"signin_hud", "on did-navigate">>, <<"signin_hud", "on closed">>>>
    /\ signInWindow["hud"] = [st |-> "live", url |-> AUTH_CONTINUE]
    /\ hudWindow.page = GEMINI_APP

\* C13: every window-open request is denied, and one whose target is not on
\* the authentication domain is handed once to shell.openExternal and leaves
\* the sign-in windows alone.
C13_WindowOpenDenied ==
    [][\A o \in Owners, url \in URLS :
         WindowOpen(o, url) =>
           /\ Called(o, "deny")'
           /\ UNCHANGED <<standardWindow, hudWindow>>
           /\ Host(url) # AUTH_HOST =>
                /\ CountCalls(calls', "shell", "openExternal") = 1
                /\ UNCHANGED signInWindow]_vars

\* C14: a will-navigate of either window to a URL on neither domain leaves
\* the page of the window as it was and hands the URL to shell.openExternal.
C14_ForeignNavigationExternal ==
    [][\A o \in Owners, url \in ForeignURLs :
         WillNavigate(o, url) =>
           /\ SourceWindow(o)' .page = SourceWindow(o).page
           /\ Called("shell", "openExternal")']_vars

\* the attributes of a stored cookie are those of the cookie copied
SameAttributes(a, b) ==
    /\ a.name = b.name
    /\ a.value = b.value
    /\ a.domain = b.domain
    /\ a.path = b.path
    /\ a.secure = b.secure
    /\ a.httpOnly = b.httpOnly
    /\ a.sameSite = b.sameSite
    /\ a.expirationDate = b.expirationDate

\* C15: the cookie the spoofed partition holds after a successful write has
\* the name, value, domain, path, secure, httpOnly, sameSite and expiration of
\* the cookie read from the clean partition.
C15_RelayFidelity ==
    written # {} => \A w \in written : SameAttributes(w, cookie)

\* C16: a write that fails changes no cookie and leaves the handler either
\* suspended on the remaining writes or, after the last one, closing its
\* sign-in window and reloading its window; no handler is left suspended with
\* nothing to wait for.
C16_FailedWriteTolerated ==
    /\ [](\A i \in DOMAIN flows : flows[i].pc = "set" => flows[i].pending # <<>>)
    /\ [][\A i \in DOMAIN flows, o \in Owners :
            (Called("spoofed", "set")' /\ spoofed' = spoofed /\ flows[i].owner = o
               /\ RelaySet(i, FALSE)) =>
              LET rest == Tail(flows[i].pending)
              IN IF rest = <<>>
                 THEN /\ Len(flows') < Len(flows)
                      /\ signInWindow[o].st # "none" =>
                           (Called(SignInName(o), "close")' /\ signInWindow'[o].st = "closing")
                      /\ ~IsDestroyed(SourceWindow(o)) =>
                           (Called(o, "loadURL")' /\ SourceWindow(o)' .page = GEMINI_URL)
                 ELSE /\ Len(flows') = Len(flows)
                      /\ \E j \in DOMAIN flows' :
                           flows'[j].owner = o /\ flows'[j].pending = rest
                      /\ ~Called("std", "loadURL")' /\ ~Called("hud", "loadURL")']_vars

\* C16 witness: both writes of a relay failed, and the HUD's handler closed
\* the sign-in window and reloaded the HUD with no cookie copied.
C16_Witness ==
    /\ clean["SID"] = 1 /\ clean["NID"] = 1
    /\ spoofed["SID"] = 0 /\ spoofed["NID"] = 0
    /\ calls = <<<<"spoofed", "set">>, <<"signin_hud", "close">>, <<"hud", "loadURL">>,
                 <<"hud", "show">>, <<"hud", "focus">>>>
    /\ signInWindow["hud"].st = "closing"

\* twice the centre point of the stored bounds lies in twice the rectangle
\* of the display d
CenterWithin(d) ==
    /\ 2 * d.x <= 2 * Val(savedBounds.x) + savedBounds.width
    /\ 2 * Val(savedBounds.x) + savedBounds.width < 2 * d.x + 2 * d.width
    /\ 2 * d.y <= 2 * Val(savedBounds.y) + savedBounds.height
    /\ 2 * Val(savedBounds.y) + savedBounds.height < 2 * d.y + 2 * d.height

\* the stored bounds have both coordinates
BothPresent == savedBounds.x # {} /\ savedBounds.y # {}

\* the default size with no position
FallbackResult ==
    [x |-> {}, y |-> {}, width |-> defaultBounds.width, height |-> defaultBounds.height]

\* C17: stored bounds with x and y whose centre lies in no attached display
\* resolve to the default size with no position.
C17_OffScreenFallsBack ==
    (resolved # {} /\ BothPresent /\ \A d \in displays : ~CenterWithin(d))
        => resolved = {FallbackResult}

\* C17 witness: a window whose corner is on the primary display and whose
\* centre is on its right edge was reset to a default size other than its own.
C17_Witness ==
    /\ resolved = {FallbackResult}
    /\ savedBounds = [x |-> {MaxCoord - 1}, y |-> {0}, width |-> 2, height |-> 1]
    /\ displays = Displays
    /\ defaultBounds = [width |-> 1, height |-> 1]

\* C18: stored bounds lacking x or y resolve to the default size with no
\* position whatever the displays are, and a coordinate of 0 is a coordinate.
C18_NoPositionFallsBack ==
    /\ (resolved # {} /\ ~BothPresent) => resolved = {FallbackResult}
    /\ (resolved # {} /\ BothPresent /\ (savedBounds.x = {0} \/ savedBounds.y = {0})
          /\ \E d \in displays : CenterWithin(d))
         => resolved = {savedBounds}

\* C18 witness: bounds with y = 0 and no x were resolved with no display
\* attached.
C18_Witness ==
    /\ resolved = {FallbackResult}
    /\ savedBounds.x = {}
    /\ savedBounds.y = {0}
    /\ displays = {}
    /\ savedBounds.width # defaultBounds.width

\* C19: stored bounds with x and y whose centre lies in some attached display
\* resolve to themselves.
C19_OnScreenKept ==
    (resolved # {} /\ BothPresent /\ \E d \in displays : CenterWithin(d))
        => resolved = {savedBounds}

\* C19 witness: with two displays attached, a window centred on the left one
\* kept its bounds, its size not the default one.
C19_Witness ==
    /\ resolved = {savedBounds}
    /\ savedBounds.x = {-MaxCoord}
    /\ savedBounds.y = {0}
    /\ displays = Displays
    /\ savedBounds.width # defaultBounds.width

\* C20: toggleHUDWindow() hides a visible HUD and shows a hidden one, the
\* window staying the same, and creates a HUD when there is none, which its
\* ready-to-show handler then shows.
C20_ToggleFlips ==
    /\ [][ToggleHUD =>
            IF IsDestroyed(hudWindow)
            THEN /\ hudWindow' = [st |-> "live", visible |-> FALSE, page |-> GEMINI_URL]
                 /\ hudReady'
                 /\ calls' = <<<<"hud", "create">>, <<"hud", "loadURL">>>>
            ELSE /\ hudWindow'.visible = ~hudWindow.visible
                 /\ hudWindow'.st = hudWindow.st
                 /\ hudWindow'.page = hudWindow.page
                 /\ ~Called("hud", "create")']_vars
    /\ [][HudReadyToShow => (hudWindow'.visible /\ ~hudReady')]_vars
    /\ [](hudReady => ~IsDestroyed(hudWindow) \/ exited)

\* C20 witness: a HUD created anew, after a quit that was cancelled closed
\* the first one, has been shown and then hidden again.
C20_Witness ==
    /\ calls = <<<<"hud", "hide">>>>
    /\ hudWindow = [st |-> "live", visible |-> FALSE, page |-> GEMINI_URL]
    /\ beforeQuitFired
    /\ ~appQuitting
    /\ ~hudReady

\* C27: at most one cookie relay is in flight at any time: while a completion
\* handler is suspended at await copyAuthCookies(), no other one is.
C27_SingleRelay == Len(flows) <= 1

\* a call of the last handler on a sign-in window
SignInCalled == \E i \in DOMAIN calls : calls[i][1] \in {SignInName(o) : o \in Owners}

\* C30: only a URL whose host is the authentication domain is redirected
\* into a sign-in window: a will-navigate or window-open request of either
\* window to a URL on another host, whatever text it carries, creates no
\* sign-in window, navigates none and calls none.
C30_OnlyAuthHostRedirected ==
    [][\A o \in Owners, url \in URLS :
         (Host(url) # AUTH_HOST /\ (WillNavigate(o, url) \/ WindowOpen(o, url))) =>
           /\ UNCHANGED signInWindow
           /\ ~SignInCalled']_vars

\* C29: only a navigation of a sign-in window that lands on the wrapped
\* site's domain starts the relay, which the close and the reloads follow: a
\* navigation to a URL on any other host, with or without the wrapped site's
\* URL in it, suspends no handler and reads no cookie.
C29_SuccessOnlyOnWrappedSite ==
    [][\A o \in Owners, navUrl \in LANDING_URLS :
         (Host(navUrl) # GEMINI_HOST /\ SignInNavigate(o, navUrl)) =>
           /\ UNCHANGED flows
           /\ ~Called("clean", "get")']_vars

\* the calls of a sequence made on the sign-in window of module o
SignInCalls(cs, o) == SelectSeq(cs, LAMBDA c : c[1] = SignInName(o))

\* C28: a sign-in intercept of a window whose sign-in window is not
\* destroyed loads the URL in that window, shows and focuses it and does
\* nothing else to it: no window is created and no did-navigate or closed
\* handler is registered; a sign-in window is created, with one handler of
\* each kind, only when the module has none.
C28_ExistingSignInReused ==
    [][\A o \in Owners, url \in URLS :
         (IsAuthTarget(url) /\ (WillNavigate(o, url) \/ WindowOpen(o, url))) =>
           IF signInWindow[o].st # "none"
           THEN /\ signInWindow'[o].st = signInWindow[o].st
                /\ signInWindow'[o].url = url
                /\ SignInCalls(calls', o) = <<<<SignInName(o), "loadURL">>,
                                              <<SignInName(o), "show">>,
                                              <<SignInName(o), "focus">>>>
           ELSE SignInCalls(calls', o) = <<<<SignInName(o), "create">>,
                                           <<SignInName(o), "loadURL">>,
                                           <<SignInName(o), "on did-navigate">>,
                                           <<SignInName(o), "on closed">>>>]_vars

\* C28 witness: a second intercept in the Standard Window redirected its open
\* sign-in window to the new URL.
C28_Witness ==
    /\ calls = <<<<"std", "preventDefault">>, <<"signin_std", "loadURL">>,
                 <<"signin_std", "show">>, <<"signin_std", "focus">>>>
    /\ signInWindow["std"] = [st |-> "live", url |-> AUTH_CONTINUE]

\* the window named w exists
ExistsNamed(w) ==
    IF w = "std" THEN Exists(standardWindow)
    ELSE IF w = "hud" THEN Exists(hudWindow)
    ELSE IF w = "signin_std" THEN SignInAlive("std")
    ELSE SignInAlive("hud")

\* C23: in every reachable state the header interceptor and the spoofed
\* default user agent are installed on persist:gemini and not on
\* persist:gemini-auth, every sign-in window that exists is on
\* persist:gemini-auth, and the Standard Window and the HUD, when they exist,
\* are on persist:gemini.
C23_PartitionsKeptApart ==
    /\ sessions[SESSION_PARTITION].interceptor
    /\ sessions[SESSION_PARTITION].userAgent = "chrome"
    /\ ~sessions[SIGNIN_PARTITION].interceptor
    /\ sessions[SIGNIN_PARTITION].userAgent = "default"
    /\ \A w \in Windows :
         ExistsNamed(w) =>
           windowSession[w] = {IF w \in {"std", "hud"} THEN SESSION_PARTITION
                               ELSE SIGNIN_PARTITION}

\* C23 witness: a Standard Window created again by activate and a sign-in
\* window of the HUD exist, each on its partition.
C23_Witness ==
    /\ Called("std", "create")
    /\ standardWindow.st = "live"
    /\ windowSession["std"] = {SESSION_PARTITION}
    /\ signInWindow["hud"].st = "live"
    /\ windowSession["signin_hud"] = {SIGNIN_PARTITION}
    /\ beforeQuitFired

\* C24: the auth-error callback is called once by the handler of a completed
\* response on persist:gemini whose host is the wrapped site's and whose
\* status is 401 or 403, and is not called for any other response.
C24_CallbackOnlyForWrappedSite ==
    [][\A p \in Partitions, host \in ResponseHosts, status \in Statuses :
         ResponseCompleted(p, host, status) =>
           authErrorCalls' = IF /\ p = SESSION_PARTITION
                                /\ host = GEMINI_LABELS
                                /\ status \in {401, 403}
                             THEN 1 ELSE 0]_vars

\* C25: after every toggle of the HUD by the hotkey, on a HUD that exists or
\* on one that is destroyed, the checked state of the tray's 'Toggle HUD'
\* item is the visibility of the HUD the toggle left.
C25_CheckmarkFollowsToggle ==
    [][ToggleHUD => trayChecked' = IsHUDVisible(hudWindow')]_vars

\* C22: updateHotkey returns true exactly when the OS accepted the new
\* accelerator; the hotkey setting becomes the new accelerator in that case
\* and keeps its value otherwise; the call requests no quit and the process
\* goes on.
C22_UpdateHotkeyReportsResult ==
    [][\A h \in Hotkeys :
         UpdateHotkey(h) =>
           /\ updateResult' = {h \notin taken}
           /\ storedHotkey' = IF h \notin taken THEN h ELSE storedHotkey
           /\ ~Called("app", "quit")'
           /\ ~appQuitting'
           /\ ~exited']_vars

\* C22 witness: an update to an accelerator another application holds
\* returned false; the setting is the default still, while the default
\* accelerator was unregistered on the way.
C22_Witness ==
    /\ updateResult = {FALSE}
    /\ calls = <<<<"globalShortcut", "unregister">>, <<"globalShortcut", "register">>>>
    /\ storedHotkey = DefaultHotkey
    /\ currentHotkey = {DefaultHotkey}
    /\ registered = {}
    /\ taken # {}

\* C21: a second process never has windows of its own, and the
\* second-instance handler of the running process leaves its Standard Window
\* shown and focused.
C21_SingleInstance ==
    /\ [](secondProcess # "windows")
    /\ [][SecondInstanceEvent =>
            /\ ~IsDestroyed(standardWindow')
            /\ standardWindow'.visible
            /\ FocusAfter(calls', "none") = "std"]_vars

\* C26: app.quit() is called by the tray's Quit item and by the close of the
\* Standard Window with closeBehavior 'quit' only, a quit begins with such a
\* call only, and the process ends only while a quit is in progress: auth
\* errors, failed cookie writes, refused hot keys and the closing of the last
\* window neither ask for a quit nor end the process.
C26_OnlyUserQuitTerminates ==
    [][/\ Called("app", "quit")' => (TrayQuit \/ (PrimaryClose /\ closeBehavior = "quit"))
       /\ (appQuitting' /\ ~appQuitting) => Called("app", "quit")'
       /\ (exited' /\ ~exited) => (appQuitting \/ Called("app", "quit")')]_vars

\* C26 witness: a hot key had been refused, the HUD had been shown, and the
\* relay whose only cookie write failed has reloaded the windows; no quit is
\* in progress and the process runs.
C26_Witness ==
    /\ calls = <<<<"spoofed", "set">>, <<"signin_std", "close">>, <<"std", "loadURL">>,
                 <<"std", "show">>, <<"std", "focus">>, <<"hud", "loadURL">>>>
    /\ spoofed = NoCookies
    /\ updateResult = {FALSE}
    /\ trayChecked
    /\ ~appQuitting
    /\ ~exited

\* C31: a will-navigate or window-open request of either window to a URL on
\* the authentication domain is cancelled, loads the URL in the sign-in
\* window of the module and leaves the visibility and the page of the source
\* window, the Standard Window or the HUD alike, as they were.
C31_SourceLeftAlone ==
    [][\A o \in Owners, url \in AuthDomainURLs :
         (WillNavigate(o, url) \/ WindowOpen(o, url)) =>
           /\ Called(o, "preventDefault")' \/ Called(o, "deny")'
           /\ signInWindow'[o].st # "none"
           /\ signInWindow'[o].url = url
           /\ SourceWindow(o)' .visible = SourceWindow(o).visible
           /\ SourceWindow(o)' .page = SourceWindow(o).page]_vars

\* C32: the auth-error callback, called while the HUD is destroyed or not
\* visible, makes no call and leaves both windows, their pending
\* ready-to-show handlers, the sign-in windows, the suspended handlers and
\* both partitions as they were; once an auth error has hidden the HUD, a
\* further one does not load the Standard Window again.
C32_HiddenOverlayNoEffect ==
    [][\A r \in response' :
         (authErrorCalls' = 1 /\ ~IsHUDVisible(hudWindow)
            /\ ResponseCompleted(r.partition, r.host, r.status)) =>
           /\ calls' = <<>>
           /\ UNCHANGED <<standardWindow, stdReady, hudWindow, hudReady, signInWindow,
                          flows, clean, spoofed>>]_vars

\* C32 witness: an auth error had hidden the HUD and shown the Standard
\* Window, which went on to a conversation; the callback ran again and the
\* conversation is still there.
C32_Witness ==
    /\ authErrorCalls = 1
    /\ calls = <<>>
    /\ hudWindow = [st |-> "live", visible |-> FALSE, page |-> GEMINI_URL]
    /\ standardWindow = [st |-> "live", visible |-> TRUE, page |-> GEMINI_APP]

\* twice the centre point of the stored bounds
CenterX2 == 2 * Val(savedBounds.x) + savedBounds.width

CenterY2 == 2 * Val(savedBounds.y) + savedBounds.height

\* the centre point is on the left or the top edge of the display d, short of
\* its right and bottom edges
OnLeftOrTopEdge(d) ==
    /\ CenterX2 = 2 * d.x \/ CenterY2 = 2 * d.y
    /\ 2 * d.x <= CenterX2 /\ CenterX2 < 2 * (d.x + d.width)
    /\ 2 * d.y <= CenterY2 /\ CenterY2 < 2 * (d.y + d.height)

\* the centre point is on the right or the bottom edge of the display d
OnRightOrBottomEdge(d) ==
    /\ CenterX2 = 2 * (d.x + d.width) \/ CenterY2 = 2 * (d.y + d.height)
    /\ 2 * d.x <= CenterX2 /\ CenterX2 <= 2 * (d.x + d.width)
    /\ 2 * d.y <= CenterY2 /\ CenterY2 <= 2 * (d.y + d.height)

\* C33: stored bounds whose centre is exactly on the left or the top edge of
\* an attached display resolve to themselves; stored bounds whose centre is
\* exactly on the right or the bottom edge of the only attached display
\* resolve to the default size with no position.
C33_HalfOpenDisplay ==
    (resolved # {} /\ BothPresent) =>
        /\ (\E d \in displays : OnLeftOrTopEdge(d)) => resolved = {savedBounds}
        /\ (\E d \in displays : displays = {d} /\ OnRightOrBottomEdge(d))
             => resolved = {FallbackResult}

\* C33 witness: a window centred on the top-left corner of the only display
\* kept its bounds, its size not the default one.
C33_Witness ==
    /\ resolved = {savedBounds}
    /\ savedBounds = [x |-> {-1}, y |-> {-1}, width |-> 2, height |-> 2]
    /\ displays = {[x |-> 0, y |-> 0, width |-> MaxCoord, height |-> MaxCoord]}
    /\ defaultBounds = [width |-> 1, height |-> 1]

\* C34: at most one accelerator is registered, the accelerator currentHotkey
\* names is registered whenever there is one, a successful updateHotkey
\* leaves the new accelerator as the only one registered, and a failed
\* updateHotkey leaves registered what was registered before it.
C34_OneHotkeyRegistered ==
    /\ [](Cardinality(registered) <= 1)
    /\ [](currentHotkey \subseteq registered)
    /\ [][\A h \in Hotkeys :
            UpdateHotkey(h) =>
              IF updateResult' = {TRUE}
              THEN registered' = {h} /\ currentHotkey' = {h}
              ELSE registered' = registered /\ currentHotkey' = currentHotkey]_vars

\* C35: a completion handler whose sign-in window was closed while it
\* awaited the relay closes no sign-in window: the sign-in window its module
\* has opened since is left as it is.
C35_NewerSignInLeftOpen ==
    [][\A i \in 1..MaxFlows, o \in Owners :
         (Completes(i) /\ flows[i].stale /\ flows[i].owner = o) =>
           /\ signInWindow'[o] = signInWindow[o]
           /\ ~Called(SignInName(o), "close")']_vars

\* the window named w is created by one of the first n calls of cs
CreatedBefore(cs, n, w) == \E j \in 1..n : cs[j] = <<w, "create">>

\* C36: every call a handler makes on the Standard Window, the HUD or a
\* sign-in window is made on a window that was not destroyed when the
\* handler began, or that the handler created before the call.
C36_NoCallOnDestroyed ==
    [][\A i \in DOMAIN calls' :
         (calls'[i][1] \in Windows /\ calls'[i][2] # "create") =>
           \/ ExistsNamed(calls'[i][1])
           \/ CreatedBefore(calls', i - 1, calls'[i][1])]_vars

ShowStandardWindowCalled ==
    \/ calls = <<<<"std", "create">>, <<"std", "loadURL">>>>
    \/ calls = <<<<"std", "loadURL">>, <<"std", "show">>, <<"std", "focus">>>>

\* C38: after every call of showStandardWindow() the Standard Window becomes
\* visible, unless it is destroyed or the process ends first.
C38_ShowEventuallyVisible ==
    ShowStandardWindowCalled ~>
        (standardWindow.visible \/ IsDestroyed(standardWindow) \/ exited)

\* no did-navigate handler of the sign-in window of module o is suspended:
\* the window has had no success navigation
NoSuccessNavigation(o) == \A i \in DOMAIN flows : flows[i].owner = o => flows[i].stale

\* C39: when the user closes a sign-in window that had no success
\* navigation, neither the close nor the closed event starts a relay or
\* issues a reload or any other call: both cookie partitions, the Standard
\* Window, the HUD and the suspended handlers are unchanged; the closed event
\* clears the sign-in reference of its module only, and the next auth-domain
\* navigation of that module creates a new sign-in window
C39_ClosedSignInOnlyClearsReference ==
    [][\A o \in Owners :
         ((SignInClose(o) \/ SignInClosed(o)) /\ NoSuccessNavigation(o)) =>
           /\ calls' = <<>>
           /\ UNCHANGED <<clean, spoofed, standardWindow, hudWindow, flows>>
           /\ \A p \in Owners \ {o} : signInWindow'[p] = signInWindow[p]
           /\ SignInClosed(o) =>
                /\ signInWindow'[o] = NoSignIn
                /\ HandleSignIn(o, AUTH_URL)' .calls[1] = <<SignInName(o), "create">>]_vars

\* the sign-in window of the Standard Window was closed by the user on the
\* auth page and its closed event has cleared the reference, while the HUD's
\* is closing the same way; no handler is suspended and no cookie was copied
C39_Witness ==
    /\ signInWindow["std"] = NoSignIn
    /\ signInWindow["hud"].st = "closing"
    /\ signInWindow["hud"].url = AUTH_URL
    /\ flows = <<>>
    /\ calls = <<>>
    /\ relayLeft = 0
    /\ standardWindow.page = GEMINI_URL /\ ~hudWindow.visible

\* C40: a turn of the relay leaves the clean partition as it was and takes
\* no cookie out of the spoofed partition: every cookie the spoofed partition
\* held that is not the cookie read from the clean partition (another name,
\* domain or path) is still held, unchanged, after the write
C40_RelayOnlyAddsOrOverwrites ==
    [][/\ cookie' = cookie
       /\ clean' = clean
       /\ \A h \in written : \E w \in written' : SameKey(w, h)
       /\ \A h \in written : ~SameKey(h, cookie) => h \in written']_vars

====
